---------------------------- MODULE Spec2Model ----------------------------
(***************************************************************************)
(* A model of b_logger.py (class BLogger): the duration codec              *)
(* (parse_hours / format_hours), the sprint calculator (get_sprint_dates), *)
(* the log list with its save/sort discipline and the reports built on it. *)
(*                                                                         *)
(* Texts (Python str) are sequences of one-character strings, so that the  *)
(* string operations of the source (lower, replace, strip, split, in,      *)
(* isdigit, int, str, strptime, strftime) are computed, not assumed.       *)
(***************************************************************************)
EXTENDS Integers, Sequences, FiniteSets, TLC

VARIABLES
    logs,          \* self.logs: the in-memory list of log entries
    log_file,      \* contents of logs.json as last written by save_logs
    settings,      \* self.settings: log_types and sprint_config
    now,           \* datetime.now(): [ord |-> day ordinal, tick |-> time of day]
    screen,        \* what the last report operation printed (structured)
    arg_minutes,   \* argument of the last format_hours call
    arg_text,      \* argument of the last parse_hours call
    ret_text,      \* value returned by the last format_hours call
    ret_minutes,   \* outcome of the last parse_hours call
    codec_op       \* which codec call ran last

vars == <<logs, log_file, settings, now, screen,
          arg_minutes, arg_text, ret_text, ret_minutes, codec_op>>

codec_vars == <<arg_minutes, arg_text, ret_text, ret_minutes, codec_op>>
store_vars == <<logs, log_file, settings, now, screen>>

(***************************************************************************)
(* Python str primitives                                                   *)
(***************************************************************************)
Digits == <<"0", "1", "2", "3", "4", "5", "6", "7", "8", "9">>

DigitChars == {"0", "1", "2", "3", "4", "5", "6", "7", "8", "9"}

IsDigitChar(c) == c \in DigitChars

DigitVal(c) ==
    CASE c = "0" -> 0 [] c = "1" -> 1 [] c = "2" -> 2 [] c = "3" -> 3 [] c = "4" -> 4
      [] c = "5" -> 5 [] c = "6" -> 6 [] c = "7" -> 7 [] c = "8" -> 8 [] c = "9" -> 9

IsSpace(c) == c = " "

\* str.lower() on one character
LowerChar(c) ==
    CASE c = "A" -> "a" [] c = "B" -> "b" [] c = "C" -> "c" [] c = "D" -> "d"
      [] c = "E" -> "e" [] c = "F" -> "f" [] c = "G" -> "g" [] c = "H" -> "h"
      [] c = "I" -> "i" [] c = "J" -> "j" [] c = "K" -> "k" [] c = "L" -> "l"
      [] c = "M" -> "m" [] c = "N" -> "n" [] c = "O" -> "o" [] c = "P" -> "p"
      [] c = "Q" -> "q" [] c = "R" -> "r" [] c = "S" -> "s" [] c = "T" -> "t"
      [] c = "U" -> "u" [] c = "V" -> "v" [] c = "W" -> "w" [] c = "X" -> "x"
      [] c = "Y" -> "y" [] c = "Z" -> "z"
      [] OTHER -> c

str_lower(s) == [i \in 1..Len(s) |-> LowerChar(s[i])]

\* sub occurs in s at position i
OccursAt(s, sub, i) ==
    /\ i + Len(sub) - 1 <= Len(s)
    /\ \A k \in 1..Len(sub) : s[i + k - 1] = sub[k]

\* `sub in s`
str_contains(s, sub) == \E i \in 1..Len(s) : OccursAt(s, sub, i)

RECURSIVE ReplaceFrom(_, _, _)
ReplaceFrom(s, old, i) ==
    IF i > Len(s) THEN <<>>
    ELSE IF OccursAt(s, old, i) THEN ReplaceFrom(s, old, i + Len(old))
    ELSE <<s[i]>> \o ReplaceFrom(s, old, i + 1)

\* s.replace(old, ''): every non-overlapping occurrence, left to right
str_remove(s, old) == ReplaceFrom(s, old, 1)

\* index of the first non-blank character from i on, Len(s) + 1 if none
RECURSIVE SkipBlanks(_, _)
SkipBlanks(s, i) ==
    IF i > Len(s) \/ ~IsSpace(s[i]) THEN i ELSE SkipBlanks(s, i + 1)

\* index of the last non-blank character up to i, 0 if none
RECURSIVE SkipBlanksBack(_, _)
SkipBlanksBack(s, i) ==
    IF i < 1 \/ ~IsSpace(s[i]) THEN i ELSE SkipBlanksBack(s, i - 1)

\* s.strip()
str_strip(s) ==
    IF Len(s) = 0 \/ (~IsSpace(s[1]) /\ ~IsSpace(s[Len(s)])) THEN s
    ELSE SubSeq(s, SkipBlanks(s, 1), SkipBlanksBack(s, Len(s)))

\* index of the first c in s from i on, 0 if none
RECURSIVE IndexFrom(_, _, _)
IndexFrom(s, c, i) ==
    IF i > Len(s) THEN 0 ELSE IF s[i] = c THEN i ELSE IndexFrom(s, c, i + 1)

\* index of the last c in s up to i, 0 if none
RECURSIVE IndexBack(_, _, _)
IndexBack(s, c, i) ==
    IF i < 1 THEN 0 ELSE IF s[i] = c THEN i ELSE IndexBack(s, c, i - 1)

\* s.split(c)[0]: the part before the first c (all of s when c is absent)
split_first(s, c) ==
    LET p == IndexFrom(s, c, 1)
    IN  IF p = 0 THEN s ELSE SubSeq(s, 1, p - 1)

\* s.split(c)[-1]: the part after the last c (all of s when c is absent)
split_last(s, c) ==
    LET p == IndexBack(s, c, Len(s))
    IN  IF p = 0 THEN s ELSE SubSeq(s, p + 1, Len(s))

\* s.isdigit()
str_isdigit(s) == Len(s) > 0 /\ \A i \in 1..Len(s) : IsDigitChar(s[i])

RECURSIVE DecimalValue(_)
DecimalValue(ds) ==
    IF Len(ds) = 0 THEN 0
    ELSE 10 * DecimalValue(SubSeq(ds, 1, Len(ds) - 1)) + DigitVal(ds[Len(ds)])

\* the digits of an int() literal: digits, single underscores between digits
NumeralBody(s) ==
    /\ Len(s) > 0
    /\ IsDigitChar(s[1])
    /\ IsDigitChar(s[Len(s)])
    /\ \A i \in 1..Len(s) : IsDigitChar(s[i]) \/ s[i] = "_"
    /\ \A i \in 1..(Len(s) - 1) : ~(s[i] = "_" /\ s[i + 1] = "_")

StripUnderscores(s) == SelectSeq(s, LAMBDA c : c # "_")

\* int(s) succeeds: optional sign, then a numeral, blanks around it allowed
int_ok(s) ==
    LET t == str_strip(s)
    IN  /\ Len(t) > 0
        /\ IF t[1] \in {"+", "-"} THEN NumeralBody(Tail(t)) ELSE NumeralBody(t)

\* the value of int(s) when int_ok(s)
int_value(s) ==
    LET t == str_strip(s)
    IN  IF t[1] = "-" THEN 0 - DecimalValue(StripUnderscores(Tail(t)))
        ELSE IF t[1] = "+" THEN DecimalValue(StripUnderscores(Tail(t)))
        ELSE DecimalValue(StripUnderscores(t))

RECURSIVE NatToStr(_)
NatToStr(n) ==
    IF n < 10 THEN <<Digits[n + 1]>>
    ELSE NatToStr(n \div 10) \o <<Digits[(n % 10) + 1]>>

\* str(n), as an f-string renders an int
int_to_str(n) == IF n < 0 THEN <<"-">> \o NatToStr(0 - n) ELSE NatToStr(n)

(***************************************************************************)
(* parse_hours / format_hours                                              *)
(***************************************************************************)
Returned(v) == [raised |-> FALSE, value |-> v]
Raised == [raised |-> TRUE, value |-> 0]

\* faulty variant: the ValueError of int() is not caught
add_component_uncaught(total, part, unit) ==
    IF total.raised THEN total
    ELSE IF int_ok(str_strip(part))
         THEN Returned(total.value + int_value(str_strip(part)) * unit)
    ELSE Raised

\* try: total_minutes += int(part.strip()) * unit / except ValueError: pass
add_component(total, part, unit) ==
    IF total.raised THEN total
    ELSE IF int_ok(str_strip(part))
         THEN Returned(total.value + int_value(str_strip(part)) * unit)
    ELSE total

Ongoing == <<"o", "n", "g", "o", "i", "n", "g">>
HoursWord == <<"h", "o", "u", "r", "s">>

\* faulty variant: a text without 'h' is never taken as hours
hours_block_suffix_only(total, s) ==
    IF str_contains(s, <<"h">>)
    THEN add_component(total, split_first(s, "h"), 60)
    ELSE total

\* the "Handle hours" block
hours_block(total, s) ==
    IF str_contains(s, <<"h">>)
    THEN add_component(total, split_first(s, "h"), 60)
    ELSE IF str_isdigit(s) THEN add_component(total, s, 60)
    ELSE total

\* faulty variant: the minutes part is not cut at the hour token
minutes_block_uncut(total, s) ==
    IF str_contains(s, <<"m">>)
    THEN add_component(total, split_first(s, "m"), 1)
    ELSE total

\* the "Handle minutes" block
minutes_block(total, s) ==
    IF str_contains(s, <<"m">>)
    THEN LET minutes_part == split_first(s, "m")
             cut == IF str_contains(minutes_part, <<"h">>)
                    THEN split_last(minutes_part, "h")
                    ELSE minutes_part
         IN  add_component(total, cut, 1)
    ELSE total

parse_hours(hours_str) ==
    IF Len(hours_str) = 0 \/ str_lower(hours_str) = Ongoing THEN Returned(0)
    ELSE LET s == str_strip(str_remove(str_lower(hours_str), HoursWord))
         IN  minutes_block(hours_block(Returned(0), s), s)

\* faulty variant: the minute component is written even when it is 0
format_hours_with_zero_minutes(total_minutes) ==
    IF total_minutes = 0 THEN <<>>
    ELSE int_to_str(total_minutes \div 60) \o <<"h", " ">>
             \o int_to_str(total_minutes % 60) \o <<"m">>

\* faulty variant: the hour component is dropped when minutes remain
format_hours_no_hour(total_minutes) ==
    IF total_minutes = 0 THEN <<>>
    ELSE IF total_minutes % 60 = 0
         THEN int_to_str(total_minutes \div 60) \o <<"h">>
    ELSE int_to_str(total_minutes % 60) \o <<"m">>

format_hours(total_minutes) ==
    IF total_minutes = 0 THEN <<>>
    ELSE LET hours == total_minutes \div 60
             minutes == total_minutes % 60
         IN  IF minutes = 0 THEN int_to_str(hours) \o <<"h">>
             ELSE int_to_str(hours) \o <<"h", " ">> \o int_to_str(minutes) \o <<"m">>

(***************************************************************************)
(* Bounds of the codec inputs                                              *)
(***************************************************************************)
MaxTextLen == 4       \* free texts over CodecAlphabet have at most this length
MaxMinutes == 130     \* format_hours is applied to 0..MaxMinutes
MaxHourArg == 11      \* <a>h tokens with a in 0..MaxHourArg
MaxMinuteArg == 15    \* <b>m tokens with b in 0..MaxMinuteArg

CodecAlphabet == {"1", "h", "m", " ", "x", "-"}

RECURSIVE TextsOfLen(_)
TextsOfLen(n) ==
    IF n = 0 THEN {<<>>}
    ELSE {<<c>> \o t : c \in CodecAlphabet, t \in TextsOfLen(n - 1)}

FreeTexts == UNION {TextsOfLen(n) : n \in 0..MaxTextLen}

Separators == {<<>>, <<" ">>}

HourToken(a) == int_to_str(a) \o <<"h">>
MinuteToken(b) == int_to_str(b) \o <<"m">>
HourFirst(a, sep, b) == HourToken(a) \o sep \o MinuteToken(b)
MinuteFirst(a, sep, b) == MinuteToken(b) \o sep \o HourToken(a)

\* numeric parts that int() rejects
MalformedNumerals ==
    {<<"x">>, <<"1", "x">>, <<"-">>, <<"1", " ", "1">>, <<"1", ".", "5">>, <<"1", "-">>}

TokenTexts ==
    {HourFirst(a, sep, b) : a \in 0..MaxHourArg, sep \in Separators, b \in 0..MaxMinuteArg}
    \cup {MinuteFirst(a, sep, b) : a \in 0..MaxHourArg, sep \in Separators, b \in 0..MaxMinuteArg}
    \cup {HourToken(a) : a \in 0..MaxHourArg}
    \cup {MinuteToken(b) : b \in 0..MaxMinuteArg}

MalformedTexts ==
    {x \o <<"h">> \o sep \o MinuteToken(b) :
        x \in MalformedNumerals, sep \in Separators, b \in 0..MaxMinuteArg}
    \cup {HourToken(a) \o sep \o x \o <<"m">> :
        a \in 0..MaxHourArg, sep \in Separators, x \in MalformedNumerals}

SpecialTexts ==
    { Ongoing,
      <<"O", "N", "G", "O", "I", "N", "G">>,
      <<"O", "n", "g", "o", "i", "n", "g">>,
      <<"2">>, <<"1", "2">>,
      <<"2", " ", "h", "o", "u", "r", "s">>,
      <<"1", "H", " ", "3", "0", "M">>,
      <<"-", "1", "h", " ", "3", "0", "m">>,
      <<"+", "2", "h">>, <<"1", "_", "0", "m">> }

\* a bare integer and the legacy form "<n> hours"
BareHours(n) == int_to_str(n)
LegacyHours(n) == int_to_str(n) \o <<" ">> \o HoursWord

LegacyTexts ==
    {BareHours(n) : n \in 0..MaxHourArg} \cup {LegacyHours(n) : n \in 0..MaxHourArg}

TextInputs ==
    FreeTexts \cup TokenTexts \cup MalformedTexts \cup SpecialTexts \cup LegacyTexts

\* the minutes given to format_hours: a range and a full working day
EightHours == 480
MinuteInputs == 0..MaxMinutes \cup {EightHours}

(***************************************************************************)
(* The codec calls                                                         *)
(***************************************************************************)
\* a caller at rest passes m to format_hours
FormatHours(m) ==
    /\ codec_op = "none"
    /\ arg_minutes' = m
    /\ ret_text' = format_hours(m)
    /\ codec_op' = "format"
    /\ UNCHANGED <<arg_text, ret_minutes, store_vars>>

\* a caller at rest passes t to parse_hours
ParseHours(t) ==
    /\ codec_op = "none"
    /\ arg_text' = t
    /\ ret_minutes' = parse_hours(t)
    /\ codec_op' = "parse"
    /\ UNCHANGED <<arg_minutes, ret_text, store_vars>>

\* parse_hours applied to what format_hours returned
ParseFormatted ==
    /\ codec_op = "format"
    /\ arg_text' = ret_text
    /\ ret_minutes' = parse_hours(ret_text)
    /\ codec_op' = "format_parse"
    /\ UNCHANGED <<arg_minutes, ret_text, store_vars>>

\* the caller drops the results and is at rest again
CodecReturn ==
    /\ codec_op # "none"
    /\ arg_minutes' = 0
    /\ arg_text' = <<>>
    /\ ret_text' = <<>>
    /\ ret_minutes' = Returned(0)
    /\ codec_op' = "none"
    /\ UNCHANGED store_vars

(***************************************************************************)
(* Dates: datetime, strptime, strftime, timedelta                          *)
(***************************************************************************)
TicksPerDay == 2      \* resolution of the time of day; tick 0 is midnight

IsLeap(y) == (y % 4 = 0 /\ y % 100 # 0) \/ y % 400 = 0

DaysInMonth(y, m) ==
    IF m = 2 THEN (IF IsLeap(y) THEN 29 ELSE 28)
    ELSE IF m \in {4, 6, 9, 11} THEN 30
    ELSE 31

DaysBeforeYear(y) ==
    (y - 1) * 365 + ((y - 1) \div 4) - ((y - 1) \div 100) + ((y - 1) \div 400)

\* days of a common year before month m
DaysBeforeMonthCommon == <<0, 31, 59, 90, 120, 151, 181, 212, 243, 273, 304, 334>>

DaysBeforeMonth(y, m) ==
    DaysBeforeMonthCommon[m] + (IF m > 2 /\ IsLeap(y) THEN 1 ELSE 0)

\* date(y, m, d).toordinal()
ToOrdinal(y, m, d) == DaysBeforeYear(y) + DaysBeforeMonth(y, m) + d

\* date.fromordinal(n) as [y, m, d]
FromOrdinal(n) ==
    LET y == CHOOSE c \in ((n \div 366) + 1)..((n \div 365) + 1) :
                 DaysBeforeYear(c) < n /\ n <= DaysBeforeYear(c + 1)
        r == n - DaysBeforeYear(y)
        m == CHOOSE c \in 1..12 :
                 DaysBeforeMonth(y, c) < r /\ r <= DaysBeforeMonth(y, c) + DaysInMonth(y, c)
    IN  [y |-> y, m |-> m, d |-> r - DaysBeforeMonth(y, m)]

\* a datetime: day ordinal and time of day
DateTime(ord, tick) == [ord |-> ord, tick |-> tick]
Midnight(ord) == DateTime(ord, 0)
Instant(dt) == dt.ord * TicksPerDay + dt.tick

\* dt + timedelta(days=n)
PlusDays(dt, n) == DateTime(dt.ord + n, dt.tick)

\* (a - b).days: the floor of the difference in days
DaysBetween(a, b) == (Instant(a) - Instant(b)) \div TicksPerDay

\* dt.weekday(): Monday is 0
Weekday(dt) == (dt.ord + 6) % 7

\* the parts of s separated by c
RECURSIVE SplitOn(_, _)
SplitOn(s, c) ==
    LET p == IndexFrom(s, c, 1)
    IN  IF p = 0 THEN <<s>>
        ELSE <<SubSeq(s, 1, p - 1)>> \o SplitOn(SubSeq(s, p + 1, Len(s)), c)

NonZeroDigits == DigitChars \ {"0"}

\* the strptime directives %d, %m and %Y
DayField(f) ==
    \/ Len(f) = 1 /\ f[1] \in NonZeroDigits
    \/ Len(f) = 2 /\ f[1] \in {" ", "0"} /\ f[2] \in NonZeroDigits
    \/ Len(f) = 2 /\ f[1] \in {"1", "2"} /\ IsDigitChar(f[2])
    \/ Len(f) = 2 /\ f[1] = "3" /\ f[2] \in {"0", "1"}

MonthField(f) ==
    \/ Len(f) = 1 /\ f[1] \in NonZeroDigits
    \/ Len(f) = 2 /\ f[1] = "0" /\ f[2] \in NonZeroDigits
    \/ Len(f) = 2 /\ f[1] = "1" /\ f[2] \in {"0", "1", "2"}

YearField(f) == Len(f) = 4 /\ \A i \in 1..4 : IsDigitChar(f[i])

FieldValue(f) == DecimalValue(str_strip(f))

ValidDate(y, m, d) == y >= 1 /\ m \in 1..12 /\ d >= 1 /\ d <= DaysInMonth(y, m)

\* faulty variant: the day is not checked against the length of the month
strptime_dmy_ok_any_day(s) ==
    LET f == SplitOn(s, ".")
    IN  /\ Len(f) = 3
        /\ DayField(f[1]) /\ MonthField(f[2]) /\ YearField(f[3])

\* datetime.strptime(s, "%d.%m.%Y") returns (no ValueError)
strptime_dmy_ok(s) ==
    LET f == SplitOn(s, ".")
    IN  /\ Len(f) = 3
        /\ DayField(f[1]) /\ MonthField(f[2]) /\ YearField(f[3])
        /\ ValidDate(FieldValue(f[3]), FieldValue(f[2]), FieldValue(f[1]))

\* datetime.strptime(s, "%d.%m.%Y"): midnight of that day
strptime_dmy(s) ==
    LET f == SplitOn(s, ".")
    IN  Midnight(ToOrdinal(FieldValue(f[3]), FieldValue(f[2]), FieldValue(f[1])))

\* datetime.strptime(s, "%Y-%m-%d") returns (no ValueError)
strptime_ymd_ok(s) ==
    LET f == SplitOn(s, "-")
    IN  /\ Len(f) = 3
        /\ YearField(f[1]) /\ MonthField(f[2]) /\ DayField(f[3])
        /\ ValidDate(FieldValue(f[1]), FieldValue(f[2]), FieldValue(f[3]))

\* datetime.strptime(s, "%Y-%m-%d"): midnight of that day
strptime_ymd(s) ==
    LET f == SplitOn(s, "-")
    IN  Midnight(ToOrdinal(FieldValue(f[1]), FieldValue(f[2]), FieldValue(f[3])))

\* n zero-padded to at least w digits
RECURSIVE ZeroPad(_, _)
ZeroPad(t, w) == IF Len(t) >= w THEN t ELSE ZeroPad(<<"0">> \o t, w)

\* dt.strftime("%d.%m.%Y")
strftime_dmy(dt) ==
    LET c == FromOrdinal(dt.ord)
    IN  ZeroPad(NatToStr(c.d), 2) \o <<".">> \o ZeroPad(NatToStr(c.m), 2)
            \o <<".">> \o ZeroPad(NatToStr(c.y), 4)

\* timestamp.split()[0]: the first blank-separated token, the date text
date_text(timestamp) == split_first(str_strip(timestamp), " ")

\* datetime.strptime(log['timestamp'].split()[0], "%d.%m.%Y")
log_date(log) == strptime_dmy(date_text(log.timestamp))

(***************************************************************************)
(* Settings                                                                *)
(***************************************************************************)
Unchecked == "x"     \* the cross mark stored for an incomplete status
Checked == "c"       \* the check mark stored for a complete status

\* default_settings of load_settings
DefaultSettings ==
    [ log_types |->
        << [name |-> <<"Q">>, prefix |-> <<"Q", "I", "-">>, status |-> Unchecked],
           [name |-> <<"J", "i", "r", "a">>, prefix |-> <<"J", "I", "R", "A", "-">>,
            status |-> Unchecked] >>,
      sprint_config |->
        [ start_date |-> <<"2", "0", "2", "5", "-", "0", "4", "-", "3", "0">>,
          duration_weeks |-> 2 ] ]

NoScreen == [kind |-> "none"]

\* the log store at rest, for the specification of the codec alone
StoreAtRest ==
    /\ logs = <<>>
    /\ log_file = <<>>
    /\ settings = DefaultSettings
    /\ now = [ord |-> 0, tick |-> 0]
    /\ screen = NoScreen

CodecAtRest ==
    /\ arg_minutes = 0
    /\ arg_text = <<>>
    /\ ret_text = <<>>
    /\ ret_minutes = Returned(0)
    /\ codec_op = "none"

(***************************************************************************)
(* The log list: save_logs and the operations that change the list         *)
(***************************************************************************)
\* a <= b on datetimes
NotAfter(a, b) == Instant(a) <= Instant(b)

\* the sort key of each entry of the list
RECURSIVE DateKeys(_)
DateKeys(list) ==
    IF Len(list) = 0 THEN <<>>
    ELSE <<Instant(log_date(Head(list)))>> \o DateKeys(Tail(list))

\* faulty variant: among equal keys the later entry comes first
StableIndex_ties_reversed(key, p) ==
    CHOOSE i \in 1..Len(key) :
        Cardinality({j \in 1..Len(key) :
            key[j] < key[i] \/ (key[j] = key[i] /\ j > i)}) = p - 1

\* the index in list of the entry that a stable ascending sort by key puts at
\* position p: it has p - 1 entries before it, those with a smaller key and
\* the earlier ones with the same key
StableIndex(key, p) ==
    CHOOSE i \in 1..Len(key) :
        Cardinality({j \in 1..Len(key) :
            key[j] < key[i] \/ (key[j] = key[i] /\ j < i)}) = p - 1

RECURSIVE PlaceFrom(_, _, _)
PlaceFrom(list, key, p) ==
    IF p > Len(list) THEN <<>>
    ELSE <<list[StableIndex(key, p)]>> \o PlaceFrom(list, key, p + 1)

\* faulty variant: the list is left in the order it has
unsorted_by_date(list) == list

\* sorted(list, key=the entry's date); Python's sort is stable
sorted_by_date(list) == PlaceFrom(list, DateKeys(list), 1)

\* load_logs: self.logs is the list read from logs.json, in the file's order
load_logs(file) == file

\* save_logs: sort self.logs in place, then dump it to logs.json
save_logs(list) ==
    LET sorted == sorted_by_date(list)
    IN  logs' = sorted /\ log_file' = sorted

\* the answers '0' and 'exit' leave a prompt
CancelWords == {<<"0">>, <<"e", "x", "i", "t">>}
is_cancel(answer) == str_lower(answer) \in CancelWords

\* datetime.now().strftime('%H:%M:%S') at the resolution of the clock
clock_text(dt) == NatToStr(dt.tick)

\* update_status applied to current_log with the answers ans
update_status(current_log, ans) ==
    [ current_log EXCEPT
        !.hours = IF str_lower(ans.update_hours) = <<"y">> THEN ans.new_hours ELSE @,
        !.q_status = IF str_lower(ans.q_status) = <<"c">> THEN Checked ELSE Unchecked,
        !.jira_status = IF str_lower(ans.jira_status) = <<"c">> THEN Checked ELSE Unchecked,
        !.subtasks = @ \o ans.subtasks ]

\* create_new_log.  ans.rejected are the dates answered before ans.custom_date:
\* each failed strptime and was asked again.
CreateNewLog(ans) ==
    /\ screen' = NoScreen
    /\ str_lower(ans.use_custom_date) \in {<<"y">>, <<"n">>} \cup CancelWords
    /\ IF is_cancel(ans.use_custom_date)
       THEN UNCHANGED <<logs, log_file>>
       ELSE /\ str_lower(ans.use_custom_date) = <<"y">> =>
                   /\ \A i \in 1..Len(ans.rejected) :
                          ~is_cancel(ans.rejected[i]) /\ ~strptime_dmy_ok(ans.rejected[i])
                   /\ is_cancel(ans.custom_date) \/ strptime_dmy_ok(ans.custom_date)
            /\ IF \/ str_lower(ans.use_custom_date) = <<"y">> /\ is_cancel(ans.custom_date)
                  \/ is_cancel(ans.ticket)
                  \/ is_cancel(ans.hours)
               THEN UNCHANGED <<logs, log_file>>
               ELSE LET current_time ==
                            IF str_lower(ans.use_custom_date) = <<"y">>
                            THEN ans.custom_date \o <<" ">> \o clock_text(now)
                            ELSE strftime_dmy(now) \o <<" ">> \o clock_text(now)
                        current_log ==
                            [ timestamp |-> current_time,
                              ticket |-> ans.ticket,
                              hours |-> ans.hours,
                              q_status |-> Unchecked,
                              jira_status |-> Unchecked,
                              subtasks |-> <<>> ]
                    IN  save_logs(Append(logs, update_status(current_log, ans.status)))
    /\ UNCHANGED <<settings, now, codec_vars>>

\* int(input(...)) - 1 is a valid index of self.logs
ValidIndex(number) == 0 <= number - 1 /\ number - 1 < Len(logs)

\* edit_log with the log number, the description answers and update_status's
EditLog(number, ans) ==
    /\ screen' = NoScreen
    /\ IF ValidIndex(number)
       THEN LET current_log == logs[number]
                described ==
                    IF str_lower(ans.edit_desc) = <<"y">> /\ str_strip(ans.new_desc) # <<>>
                    THEN [current_log EXCEPT !.ticket = ans.new_desc]
                    ELSE current_log
            IN  save_logs([logs EXCEPT ![number] = update_status(described, ans.status)])
       ELSE UNCHANGED <<logs, log_file>>
    /\ UNCHANGED <<settings, now, codec_vars>>

\* list.pop(i) leaves the list without its element i (1-based here)
RemoveAt(list, i) == SubSeq(list, 1, i - 1) \o SubSeq(list, i + 1, Len(list))

\* delete_log with the log number and the confirmation
DeleteLog(number, confirm) ==
    /\ screen' = NoScreen
    /\ IF ValidIndex(number) /\ str_lower(confirm) = <<"y">>
       THEN save_logs(RemoveAt(logs, number))
       ELSE UNCHANGED <<logs, log_file>>
    /\ UNCHANGED <<settings, now, codec_vars>>

\* the body shared by mark_as_checked and mark_as_unchecked
set_status(status_choice, number, mark) ==
    /\ status_choice \in {<<"q">>, <<"j">>, <<"b">>, <<"0">>}
    /\ screen' = NoScreen
    /\ IF status_choice # <<"0">> /\ ValidIndex(number)
       THEN save_logs([logs EXCEPT
                ![number].q_status =
                    IF status_choice \in {<<"q">>, <<"b">>} THEN mark ELSE @,
                ![number].jira_status =
                    IF status_choice \in {<<"j">>, <<"b">>} THEN mark ELSE @])
       ELSE UNCHANGED <<logs, log_file>>
    /\ UNCHANGED <<settings, now, codec_vars>>

\* mark_as_checked; answering 'y' to "another" runs the operation again
MarkAsChecked(status_choice, number) ==
    set_status(status_choice, number, Checked)

\* mark_as_unchecked
MarkAsUnchecked(status_choice, number) ==
    set_status(status_choice, number, Unchecked)

\* one pass of the options loop of edit_subtasks
apply_subtask_option(subtasks, step) ==
    IF step.option \in {<<"1">>, <<"2">>}
       /\ 0 <= step.number - 1 /\ step.number - 1 < Len(subtasks)
    THEN IF step.option = <<"1">>
         THEN IF str_strip(step.text) # <<>>
              THEN [subtasks EXCEPT ![step.number] = step.text]
              ELSE subtasks
         ELSE RemoveAt(subtasks, step.number)
    ELSE subtasks

RECURSIVE apply_subtask_options(_, _)
apply_subtask_options(subtasks, steps) ==
    IF Len(steps) = 0 THEN subtasks
    ELSE apply_subtask_options(apply_subtask_option(subtasks, Head(steps)), Tail(steps))

\* edit_subtasks with the log number and the options chosen before '0'
EditSubtasks(number, steps) ==
    /\ screen' = NoScreen
    /\ IF ValidIndex(number) /\ logs[number].subtasks # <<>>
       THEN save_logs([logs EXCEPT
                ![number].subtasks = apply_subtask_options(@, steps)])
       ELSE UNCHANGED <<logs, log_file>>
    /\ UNCHANGED <<settings, now, codec_vars>>

(***************************************************************************)
(* display_logs                                                            *)
(***************************************************************************)
NoDate == <<"None">>     \* current_date = None

EntryLine(number, log) ==
    [kind |-> "entry", number |-> number, log |-> log, date |-> date_text(log.timestamp)]

\* "Total for <date>: <text>" and the rule under it
TotalLines(date, minutes) ==
    << [kind |-> "total", date |-> date, minutes |-> minutes,
        text |-> format_hours(minutes), green |-> minutes = 480],
       [kind |-> "rule"] >>

DayRule == [kind |-> "day_rule"]

\* the lines printed when the date changes from current_date
DateChangeLines(current_date, day_total_minutes) ==
    (IF format_hours(day_total_minutes) # <<>>
     THEN TotalLines(current_date, day_total_minutes)
     ELSE <<>>) \o <<DayRule>>

\* the loop of display_logs from entry i on, and the total of the last day
RECURSIVE display_from(_, _, _, _, _)
display_from(sorted_logs, i, current_date, day_total_minutes, out) ==
    IF i > Len(sorted_logs)
    THEN IF day_total_minutes > 0
         THEN out \o TotalLines(current_date, day_total_minutes)
         ELSE out
    ELSE LET log == sorted_logs[i]
             changed == current_date # NoDate /\ date_text(log.timestamp) # current_date
             printed == IF changed
                        THEN out \o DateChangeLines(current_date, day_total_minutes)
                        ELSE out
             carried == IF changed THEN 0 ELSE day_total_minutes
         IN  display_from(sorted_logs, i + 1, date_text(log.timestamp),
                          carried + parse_hours(log.hours).value,
                          printed \o <<EntryLine(i, log)>>)

\* the lines display_logs prints for the list
display_logs(list) == display_from(sorted_by_date(list), 1, NoDate, 0, <<>>)

\* faulty variant: the list itself is sorted for the display
DisplayLogs_sorting_in_place ==
    /\ screen' = [kind |-> "logs", lines |-> display_logs(logs)]
    /\ logs' = sorted_by_date(logs)
    /\ UNCHANGED <<log_file, settings, now, codec_vars>>

DisplayLogs ==
    /\ screen' = [kind |-> "logs", lines |-> display_logs(logs)]
    /\ UNCHANGED <<logs, log_file, settings, now, codec_vars>>

(***************************************************************************)
(* view_logs_for_date                                                      *)
(***************************************************************************)
\* the subtask lines of an entry
RECURSIVE subtask_lines(_)
subtask_lines(subtasks) ==
    IF Len(subtasks) = 0 THEN <<>>
    ELSE <<[kind |-> "subtask", text |-> Head(subtasks)]>> \o subtask_lines(Tail(subtasks))

\* output_lines of view_logs_for_date from entry i on: the date once, then a
\* line per entry whose date text equals date_str, and its subtasks
RECURSIVE lines_for_date(_, _, _, _)
lines_for_date(list, date_str, i, found) ==
    IF i > Len(list) THEN <<>>
    ELSE LET log == list[i]
         IN  IF date_text(log.timestamp) = date_str
             THEN (IF found THEN <<>> ELSE <<[kind |-> "date", text |-> date_str]>>)
                  \o << [ kind |-> "ticket",
                          text |-> IF log.hours # <<>>
                                   THEN log.ticket \o <<" ", "(">> \o log.hours \o <<")">>
                                   ELSE log.ticket ] >>
                  \o subtask_lines(log.subtasks)
                  \o lines_for_date(list, date_str, i + 1, TRUE)
             ELSE lines_for_date(list, date_str, i + 1, found)

\* view_logs_for_date with the date answered
ViewLogsForDate(answer) ==
    /\ screen' =
           LET date_str == str_strip(answer)
           IN  IF ~strptime_dmy_ok(date_str)
               THEN [ kind |-> "logs_for_date", lines |-> <<>>,
                      message |-> "Invalid date format. Please use DD.MM.YYYY." ]
               ELSE IF lines_for_date(logs, date_str, 1, FALSE) = <<>>
               THEN [ kind |-> "logs_for_date", lines |-> <<>>,
                      message |-> "No logs found for the date." ]
               ELSE [ kind |-> "logs_for_date", message |-> "",
                      lines |-> lines_for_date(logs, date_str, 1, FALSE) ]
    /\ UNCHANGED <<logs, log_file, settings, now, codec_vars>>

(***************************************************************************)
(* Sprints: configure_sprint_settings, get_sprint_dates,                   *)
(* view_sprint_history                                                     *)
(***************************************************************************)
\* configure_sprint_settings, choice 1.  ans.rejected are the dates answered
\* before ans.accepted: each failed strptime and was asked again.
ConfigureSprintStart(ans) ==
    /\ \A i \in 1..Len(ans.rejected) : ~strptime_ymd_ok(ans.rejected[i])
    /\ strptime_ymd_ok(ans.accepted)
    /\ settings' = [settings EXCEPT !.sprint_config.start_date = ans.accepted]
    /\ screen' = NoScreen
    /\ UNCHANGED <<logs, log_file, now, codec_vars>>

\* faulty variant: every number is taken as a duration
duration_ok_any_number(answer) == int_ok(answer)

\* int(new_duration) succeeds with a value > 0
duration_ok(answer) == int_ok(answer) /\ int_value(answer) > 0

\* configure_sprint_settings, choice 2.  ans.rejected are the durations
\* answered before ans.accepted: not a number, or not greater than 0.
ConfigureSprintDuration(ans) ==
    /\ \A i \in 1..Len(ans.rejected) : ~duration_ok(ans.rejected[i])
    /\ duration_ok(ans.accepted)
    /\ settings' = [settings EXCEPT
            !.sprint_config.duration_weeks = int_value(ans.accepted)]
    /\ screen' = NoScreen
    /\ UNCHANGED <<logs, log_file, now, codec_vars>>

\* first_sprint_start of get_sprint_dates
first_sprint_start(config) == strptime_ymd(config.start_date)

\* sprint_duration of get_sprint_dates, in days
sprint_duration(config) == config.duration_weeks * 7

\* integer division that truncates toward zero
TruncDiv(a, b) == IF a >= 0 THEN a \div b ELSE 0 - ((0 - a) \div b)

\* faulty variant: the sprint number is truncated toward zero
current_sprint_number_truncated(config, current) ==
    TruncDiv(DaysBetween(current, first_sprint_start(config)), sprint_duration(config))

\* the sprint number computed when sprint_number is None
current_sprint_number(config, current) ==
    DaysBetween(current, first_sprint_start(config)) \div sprint_duration(config)

\* faulty variant: the sprint ends on the day the next one starts
sprint_dates_overlapping(config, sprint_number) ==
    LET sprint_start ==
            PlusDays(first_sprint_start(config), sprint_duration(config) * sprint_number)
    IN  [ sprint_start |-> sprint_start,
          sprint_end |-> PlusDays(sprint_start, sprint_duration(config)) ]

\* faulty variant: the sprint ends two days before the next one starts
sprint_dates_gapped(config, sprint_number) ==
    LET sprint_start ==
            PlusDays(first_sprint_start(config), sprint_duration(config) * sprint_number)
    IN  [ sprint_start |-> sprint_start,
          sprint_end |-> PlusDays(sprint_start, sprint_duration(config) - 2) ]

\* sprint_start and sprint_end of get_sprint_dates for a sprint number
sprint_dates(config, sprint_number) ==
    LET sprint_start ==
            PlusDays(first_sprint_start(config), sprint_duration(config) * sprint_number)
    IN  [ sprint_start |-> sprint_start,
          sprint_end |-> PlusDays(sprint_start, sprint_duration(config) - 1) ]

\* get_sprint_dates(sprint_number) for a given sprint number
GetSprintDates(sprint_number) ==
    /\ LET dates == sprint_dates(settings.sprint_config, sprint_number)
       IN  screen' = [ kind |-> "sprint_dates",
                       sprint_number |-> sprint_number,
                       sprint_start |-> dates.sprint_start,
                       sprint_end |-> dates.sprint_end ]
    /\ UNCHANGED <<logs, log_file, settings, now, codec_vars>>

\* get_sprint_dates(None): the sprint of datetime.now()
GetCurrentSprintDates ==
    /\ LET sprint_number == current_sprint_number(settings.sprint_config, now)
           dates == sprint_dates(settings.sprint_config, sprint_number)
       IN  screen' = [ kind |-> "current_sprint_dates",
                       sprint_number |-> sprint_number,
                       sprint_start |-> dates.sprint_start,
                       sprint_end |-> dates.sprint_end ]
    /\ UNCHANGED <<logs, log_file, settings, now, codec_vars>>

\* the constants written into view_sprint_history
HistoryEpoch == Midnight(ToOrdinal(2025, 4, 30))
HistorySprintDays == 14

\* the smallest and the largest key of a non-empty list of keys
RECURSIVE MinKey(_)
MinKey(key) ==
    IF Len(key) = 1 THEN key[1]
    ELSE LET rest == MinKey(Tail(key)) IN IF key[1] <= rest THEN key[1] ELSE rest

RECURSIVE MaxKey(_)
MaxKey(key) ==
    IF Len(key) = 1 THEN key[1]
    ELSE LET rest == MaxKey(Tail(key)) IN IF key[1] >= rest THEN key[1] ELSE rest

Abs(n) == IF n < 0 THEN 0 - n ELSE n

\* sprints_back of view_sprint_history
sprints_back(list) ==
    Abs(((MinKey(DateKeys(list)) - Instant(HistoryEpoch)) \div TicksPerDay)
            \div HistorySprintDays)

\* sprints_forward of view_sprint_history
sprints_forward(list) ==
    ((MaxKey(DateKeys(list)) - Instant(HistoryEpoch)) \div TicksPerDay)
        \div HistorySprintDays

\* the entries of list dated within [sprint_start, sprint_end]
logs_between(list, sprint_start, sprint_end) ==
    SelectSeq(list, LAMBDA log :
        NotAfter(sprint_start, log_date(log)) /\ NotAfter(log_date(log), sprint_end))

\* the date headers and tickets printed for date-sorted entries
RECURSIVE date_grouped_lines(_, _, _)
date_grouped_lines(sorted_logs, i, current_date) ==
    IF i > Len(sorted_logs) THEN <<>>
    ELSE LET date == date_text(sorted_logs[i].timestamp)
         IN  (IF current_date # date THEN <<[kind |-> "date", text |-> date]>> ELSE <<>>)
             \o <<[kind |-> "ticket", text |-> sorted_logs[i].ticket]>>
             \o date_grouped_lines(sorted_logs, i + 1, date)

\* faulty variant: a sprint is shown only when it has logs
history_block_logs_only(list, config, current, i) ==
    LET dates == sprint_dates(config, i)
        sprint_logs == logs_between(list, dates.sprint_start, dates.sprint_end)
    IN  [ index |-> i,
          sprint_start |-> dates.sprint_start,
          sprint_end |-> dates.sprint_end,
          sprint_logs |-> sorted_by_date(sprint_logs),
          shown |-> Len(sprint_logs) > 0,
          lines |-> date_grouped_lines(sorted_by_date(sprint_logs), 1, NoDate) ]

\* one pass of the loop over range(-sprints_back, sprints_forward + 1)
history_block(list, config, current, i) ==
    LET dates == sprint_dates(config, i)
        sprint_logs == logs_between(list, dates.sprint_start, dates.sprint_end)
    IN  [ index |-> i,
          sprint_start |-> dates.sprint_start,
          sprint_end |-> dates.sprint_end,
          sprint_logs |-> sorted_by_date(sprint_logs),
          shown |-> Len(sprint_logs) > 0 \/ Instant(dates.sprint_end) < Instant(current),
          lines |-> date_grouped_lines(sorted_by_date(sprint_logs), 1, NoDate) ]

RECURSIVE history_blocks(_, _, _, _, _)
history_blocks(list, config, current, i, last) ==
    IF i > last THEN <<>>
    ELSE <<history_block(list, config, current, i)>>
         \o history_blocks(list, config, current, i + 1, last)

\* view_sprint_history: one block per enumerated sprint; a block is printed
\* when it is shown
ViewSprintHistory ==
    /\ screen' =
           IF Len(logs) = 0 THEN [kind |-> "sprint_history", blocks |-> <<>>]
           ELSE [ kind |-> "sprint_history",
                  blocks |-> history_blocks(logs, settings.sprint_config, now,
                                 0 - sprints_back(logs), sprints_forward(logs)) ]
    /\ UNCHANGED <<logs, log_file, settings, now, codec_vars>>

(***************************************************************************)
(* manage_log_types                                                        *)
(***************************************************************************)
\* manage_log_types, choice 1: a new type is appended
AddLogType(name, prefix) ==
    /\ settings' = [settings EXCEPT !.log_types =
            Append(@, [name |-> name, prefix |-> prefix, status |-> Unchecked])]
    /\ screen' = NoScreen
    /\ UNCHANGED <<logs, log_file, now, codec_vars>>

\* input(...) or old: an empty answer keeps the old value
answer_or(answer, old) == IF Len(answer) = 0 THEN old ELSE answer

\* int(input(...)) - 1 is a valid index of settings["log_types"]
ValidTypeIndex(number) == 0 <= number - 1 /\ number - 1 < Len(settings.log_types)

\* manage_log_types, choice 2: the type of that number gets the name and
\* the prefix answered
EditLogType(number, name, prefix) ==
    /\ settings' =
           IF ValidTypeIndex(number)
           THEN [settings EXCEPT !.log_types[number] =
                    [ name |-> answer_or(name, @.name),
                      prefix |-> answer_or(prefix, @.prefix),
                      status |-> @.status ]]
           ELSE settings
    /\ screen' = NoScreen
    /\ UNCHANGED <<logs, log_file, now, codec_vars>>

\* manage_log_types, choice 3: the type of that number is deleted
DeleteLogType(number) ==
    /\ settings' =
           IF ValidTypeIndex(number)
           THEN [settings EXCEPT !.log_types = RemoveAt(@, number)]
           ELSE settings
    /\ screen' = NoScreen
    /\ UNCHANGED <<logs, log_file, now, codec_vars>>

(***************************************************************************)
(* view_sprint_logs                                                        *)
(***************************************************************************)
\* the prefix written into view_sprint_logs
QiPrefix == <<"Q", "I", "-">>
QMarker == <<"[", "Q", "]">>

\* ticket.startswith(prefix)
str_startswith(s, prefix) == OccursAt(s, prefix, 1)

\* ticket.split()[0].split('[')[0]: the text before the first blank or '['
qi_number_of(ticket) == split_first(split_first(str_strip(ticket), " "), "[")

\* the position of the key in the dict, 0 when the key is absent
RECURSIVE KeyIndex(_, _, _)
KeyIndex(dict, key, i) ==
    IF i > Len(dict) THEN 0
    ELSE IF dict[i].key = key THEN i ELSE KeyIndex(dict, key, i + 1)

\* dict[key] = value: a present key keeps its place, a new key comes last
dict_set(dict, key, value) ==
    LET p == KeyIndex(dict, key, 1)
    IN  IF p = 0 THEN Append(dict, [key |-> key, value |-> value])
        ELSE [dict EXCEPT ![p].value = value]

\* faulty variant: the first ticket seen is kept, marked or not
qi_replaces_first_only(ticket, qi_number, qi_logs) ==
    KeyIndex(qi_logs, qi_number, 1) = 0

\* '[Q]' in log['ticket'] or qi_number not in qi_logs
qi_replaces(ticket, qi_number, qi_logs) ==
    str_contains(ticket, QMarker) \/ KeyIndex(qi_logs, qi_number, 1) = 0

\* the loop that fills qi_logs from sprint_logs, entry i on
RECURSIVE qi_logs_from(_, _, _)
qi_logs_from(sprint_logs, i, qi_logs) ==
    IF i > Len(sprint_logs) THEN qi_logs
    ELSE LET ticket == sprint_logs[i].ticket
             qi_number == qi_number_of(ticket)
         IN  qi_logs_from(sprint_logs, i + 1,
                 IF str_startswith(ticket, QiPrefix)
                    /\ qi_replaces(ticket, qi_number, qi_logs)
                 THEN dict_set(qi_logs, qi_number, ticket)
                 ELSE qi_logs)

\* the characters of the model's texts in the order of their code points
CharOrder ==
    << " ", "-", ".", "0", "1", "2", "3", "4", "5", "6", "7", "8", "9",
       "A", "B", "C", "D", "E", "F", "G", "H", "I", "J", "K", "L", "M",
       "N", "O", "P", "Q", "R", "S", "T", "U", "V", "W", "X", "Y", "Z",
       "[", "]", "_",
       "a", "b", "c", "d", "e", "f", "g", "h", "i", "j", "k", "l", "m",
       "n", "o", "p", "q", "r", "s", "t", "u", "v", "w", "x", "y", "z" >>

RECURSIVE CharIndex(_, _)
CharIndex(c, i) ==
    IF i > Len(CharOrder) THEN i ELSE IF CharOrder[i] = c THEN i ELSE CharIndex(c, i + 1)

\* a < b on str
RECURSIVE str_less(_, _)
str_less(a, b) ==
    IF Len(b) = 0 THEN FALSE
    ELSE IF Len(a) = 0 THEN TRUE
    ELSE IF Head(a) = Head(b) THEN str_less(Tail(a), Tail(b))
    ELSE CharIndex(Head(a), 1) < CharIndex(Head(b), 1)

\* one text put into a sorted list of texts
RECURSIVE insert_sorted(_, _)
insert_sorted(sorted, text) ==
    IF Len(sorted) = 0 THEN <<text>>
    ELSE IF str_less(text, Head(sorted)) THEN <<text>> \o sorted
    ELSE <<Head(sorted)>> \o insert_sorted(Tail(sorted), text)

\* sorted(qi_logs.values())
RECURSIVE sorted_values(_)
sorted_values(dict) ==
    IF Len(dict) = 0 THEN <<>>
    ELSE insert_sorted(sorted_values(SubSeq(dict, 1, Len(dict) - 1)), dict[Len(dict)].value)

\* what view_sprint_logs prints for the list
sprint_logs_report(list, config, current) ==
    LET dates == sprint_dates(config, current_sprint_number(config, current))
        sprint_logs == logs_between(list, dates.sprint_start, dates.sprint_end)
        qi_logs == qi_logs_from(sprint_logs, 1, <<>>)
    IN  IF Len(sprint_logs) = 0
        THEN [ kind |-> "sprint_logs",
               message |-> "No logs found for the current sprint.",
               sprint_start |-> dates.sprint_start, sprint_end |-> dates.sprint_end,
               sprint_logs |-> <<>>, qi_logs |-> <<>>, qi_lines |-> <<>>, lines |-> <<>> ]
        ELSE [ kind |-> "sprint_logs", message |-> "",
               sprint_start |-> dates.sprint_start, sprint_end |-> dates.sprint_end,
               sprint_logs |-> sprint_logs,
               qi_logs |-> qi_logs,
               qi_lines |-> sorted_values(qi_logs),
               lines |-> date_grouped_lines(sorted_by_date(sprint_logs), 1, NoDate) ]

ViewSprintLogs ==
    /\ screen' = sprint_logs_report(logs, settings.sprint_config, now)
    /\ UNCHANGED <<logs, log_file, settings, now, codec_vars>>

(***************************************************************************)
(* display_statistics                                                      *)
(***************************************************************************)
WindowDays == 13      \* timedelta(days=13)
MaxWorkdays == 10     \* [:10]
chart_width == 50

\* faulty variant: every entry is taken into the window
in_window_any_date(log, current) == TRUE

\* log_date >= fourteen_days_ago, with fourteen_days_ago = now - 13 days
in_window(log, current) ==
    Instant(log_date(log)) >= Instant(PlusDays(current, 0 - WindowDays))

\* recent_logs as first collected
window_logs(list, current) == SelectSeq(list, LAMBDA log : in_window(log, current))

\* faulty variant: the days of the week are not told apart
RECURSIVE workday_ordinals_all_days(_)
workday_ordinals_all_days(recent) ==
    IF Len(recent) = 0 THEN {}
    ELSE {log_date(Head(recent)).ord} \cup workday_ordinals_all_days(Tail(recent))

\* the day ordinals of the weekday entries of recent_logs
RECURSIVE workday_ordinals(_)
workday_ordinals(recent) ==
    IF Len(recent) = 0 THEN {}
    ELSE (IF Weekday(log_date(Head(recent))) < 5
          THEN {log_date(Head(recent)).ord} ELSE {})
         \cup workday_ordinals(Tail(recent))

MaxOf(S) == CHOOSE m \in S : \A x \in S : x <= m

\* faulty variant: all elements are taken, however many
RECURSIVE descending_all(_, _)
descending_all(S, n) ==
    IF S = {} THEN <<>>
    ELSE <<MaxOf(S)>> \o descending_all(S \ {MaxOf(S)}, n)

\* the first n elements of S in descending order
RECURSIVE descending(_, _)
descending(S, n) ==
    IF S = {} \/ n = 0 THEN <<>>
    ELSE <<MaxOf(S)>> \o descending(S \ {MaxOf(S)}, n - 1)

RECURSIVE formatted_days(_)
formatted_days(ords) ==
    IF Len(ords) = 0 THEN <<>>
    ELSE <<strftime_dmy(Midnight(Head(ords)))>> \o formatted_days(Tail(ords))

\* workdays: the strftime texts of the weekday dates of recent_logs, sorted
\* by date in descending order, the first MaxWorkdays of them
workdays_of(recent) ==
    formatted_days(descending(workday_ordinals(recent), MaxWorkdays))

InSeq(x, seq) == \E i \in 1..Len(seq) : seq[i] = x

\* recent_logs after the filter: the timestamp's date text is in workdays
filtered_logs(recent, workdays) ==
    SelectSeq(recent, LAMBDA log : InSeq(date_text(log.timestamp), workdays))

\* faulty variant: an entry without the key of the type counts as complete
status_of_default_complete(log, type_name) ==
    IF str_lower(type_name) = <<"q">> THEN log.q_status
    ELSE IF str_lower(type_name) = <<"j", "i", "r", "a">> THEN log.jira_status
    ELSE Checked

\* log.get(f"{type_name.lower()}_status", cross): an entry has the two keys
\* q_status and jira_status
status_of(log, type_name) ==
    IF str_lower(type_name) = <<"q">> THEN log.q_status
    ELSE IF str_lower(type_name) = <<"j", "i", "r", "a">> THEN log.jira_status
    ELSE Unchecked

\* completion_stats[type_name]
completion_of(recent, type_name) ==
    LET completed ==
            Len(SelectSeq(recent, LAMBDA log : status_of(log, type_name) = Checked))
        total_logs == Len(recent)
    IN  [ name |-> type_name, completed |-> completed, total |-> total_logs,
          \* completed / total_logs * 100 as the fraction num / den
          percentage |-> IF total_logs > 0
                         THEN [num |-> completed * 100, den |-> total_logs]
                         ELSE [num |-> 0, den |-> 1] ]

\* faulty variant: only the entries that have the key of the type are listed
incomplete_of_keyed(recent, type_name) ==
    sorted_by_date(SelectSeq(recent, LAMBDA log :
        /\ str_lower(type_name) \in {<<"q">>, <<"j", "i", "r", "a">>}
        /\ status_of(log, type_name) = Unchecked))

\* the incomplete logs of a type, sorted by date
incomplete_of(recent, type_name) ==
    sorted_by_date(SelectSeq(recent, LAMBDA log : status_of(log, type_name) = Unchecked))

\* completion_stats, in the order of the configured types
RECURSIVE completion_stats(_, _)
completion_stats(types, recent) ==
    IF Len(types) = 0 THEN <<>>
    ELSE <<completion_of(recent, Head(types).name)>>
         \o completion_stats(Tail(types), recent)

\* the incomplete lists, in the order of the configured types
RECURSIVE incomplete_lists(_, _)
incomplete_lists(types, recent) ==
    IF Len(types) = 0 THEN <<>>
    ELSE <<[name |-> Head(types).name, logs |-> incomplete_of(recent, Head(types).name)]>>
         \o incomplete_lists(Tail(types), recent)

\* hours_per_day.get(date, 0)
RECURSIVE minutes_on(_, _)
minutes_on(recent, date) ==
    IF Len(recent) = 0 THEN 0
    ELSE (IF date_text(Head(recent).timestamp) = date
          THEN parse_hours(Head(recent).hours).value ELSE 0)
         + minutes_on(Tail(recent), date)

\* logs_by_date.get(date, 0)
count_on(recent, date) ==
    Len(SelectSeq(recent, LAMBDA log : date_text(log.timestamp) = date))

\* the set of date keys of a per-date dict
date_keys(recent) == {date_text(recent[i].timestamp) : i \in 1..Len(recent)}

\* max(hours_per_day.values()) if hours_per_day else 0
max_hours(recent) ==
    IF Len(recent) = 0 THEN 0
    ELSE MaxOf({minutes_on(recent, date) : date \in date_keys(recent)})

\* max(logs_by_date.values()) if logs_by_date else 0
max_logs(recent) ==
    IF Len(recent) = 0 THEN 0
    ELSE MaxOf({count_on(recent, date) : date \in date_keys(recent)})

\* int((value / max) * chart_width) if max > 0 else 0.  The quotient and the
\* product are IEEE doubles: for 0 <= value <= max the product falls short
\* of the exact value by one only when value / max = 29/50 (28.999...), and
\* int() truncates toward zero.
bar_length(value, max) ==
    IF max > 0
    THEN IF value >= 0 /\ value * 50 = 29 * max
         THEN (value * chart_width) \div max - 1
         ELSE TruncDiv(value * chart_width, max)
    ELSE 0

\* one chart row: the date, its value, the bar and the mark of today
chart_row(date, value, max, current) ==
    [ date |-> date,
      value |-> value,
      bar_length |-> bar_length(value, max),
      today |-> date = strftime_dmy(current) ]

\* the rows of "Hours per Workday", with the formatted hours
RECURSIVE hours_chart(_, _, _, _)
hours_chart(workdays, recent, max, current) ==
    IF Len(workdays) = 0 THEN <<>>
    ELSE <<[ row |-> chart_row(Head(workdays), minutes_on(recent, Head(workdays)),
                               max, current),
             hours_str |-> format_hours(minutes_on(recent, Head(workdays))) ]>>
         \o hours_chart(Tail(workdays), recent, max, current)

\* the rows of "Logs per Workday"
RECURSIVE logs_chart(_, _, _, _)
logs_chart(workdays, recent, max, current) ==
    IF Len(workdays) = 0 THEN <<>>
    ELSE <<chart_row(Head(workdays), count_on(recent, Head(workdays)), max, current)>>
         \o logs_chart(Tail(workdays), recent, max, current)

\* what display_statistics prints for the list
statistics(list, types, current) ==
    LET window == window_logs(list, current)
        workdays == workdays_of(window)
        recent == filtered_logs(window, workdays)
    IN  IF Len(list) = 0
        THEN [kind |-> "statistics", message |-> "No logs found.", window |-> <<>>]
        ELSE IF Len(window) = 0
        THEN [ kind |-> "statistics",
               message |-> "No logs found in the last 10 workdays.", window |-> <<>> ]
        ELSE [ kind |-> "statistics", message |-> "",
               window |-> window,
               workdays |-> workdays,
               recent_logs |-> recent,
               total_logs |-> Len(recent),
               completion_stats |-> completion_stats(types, recent),
               incomplete |-> incomplete_lists(types, recent),
               hours_chart |-> hours_chart(workdays, recent, max_hours(recent), current),
               logs_chart |-> logs_chart(workdays, recent, max_logs(recent), current) ]

DisplayStatistics ==
    /\ screen' = statistics(logs, settings.log_types, now)
    /\ UNCHANGED <<logs, log_file, settings, now, codec_vars>>

\* the clock reaches the next tick
ClockTick(limit) ==
    /\ Instant(now) < Instant(limit)
    /\ now' = IF now.tick + 1 < TicksPerDay
              THEN DateTime(now.ord, now.tick + 1)
              ELSE DateTime(now.ord + 1, 0)
    /\ screen' = NoScreen
    /\ UNCHANGED <<logs, log_file, settings, codec_vars>>

(***************************************************************************)
(* Specification of the duration codec: format_hours over 0..MaxMinutes,   *)
(* parse_hours over TextInputs and over what format_hours returned.        *)
(***************************************************************************)
InitCodec == StoreAtRest /\ CodecAtRest

NextCodec ==
    \/ \E m \in MinuteInputs : FormatHours(m)
    \/ \E t \in TextInputs : ParseHours(t)
    \/ ParseFormatted
    \/ CodecReturn

SpecCodec == InitCodec /\ [][NextCodec]_vars

(***************************************************************************)
(* Claims about the codec                                                  *)
(***************************************************************************)
Parsed == codec_op \in {"parse", "format_parse"}

\* C1: for every nonnegative m, parse_hours(format_hours(m)) = m, including
\* m = 0 (empty text) and m < 60 (zero hour component).
C1_RoundTrip ==
    codec_op = "format_parse" => ret_minutes = Returned(arg_minutes)

\* C1 witness: 45 minutes were formatted as "0h 45m" and parsed back.
C1_Witness ==
    /\ codec_op = "format_parse"
    /\ arg_minutes = 45
    /\ ret_text = <<"0", "h", " ", "4", "5", "m">>
    /\ ret_minutes.value = 45

\* C2 (as stated): 60a+b for the hour and minute tokens in either order,
\* 60a for the hour token alone, b for the minute token alone.
C2_EitherOrder ==
    codec_op = "parse" =>
        \A a \in 0..MaxHourArg, b \in 0..MaxMinuteArg, sep \in Separators :
            /\ arg_text = HourFirst(a, sep, b) => ret_minutes = Returned(60 * a + b)
            /\ arg_text = MinuteFirst(a, sep, b) => ret_minutes = Returned(60 * a + b)
            /\ arg_text = HourToken(a) => ret_minutes = Returned(60 * a)
            /\ arg_text = MinuteToken(b) => ret_minutes = Returned(b)

\* C2 (amended): 60a+b when the hour token comes first, 60a for the hour token
\* alone, b for the minute token alone; when the minute token comes first the
\* hour token is ignored and the result is b.
C2_HourFirst ==
    codec_op = "parse" =>
        \A a \in 0..MaxHourArg, b \in 0..MaxMinuteArg, sep \in Separators :
            /\ arg_text = HourFirst(a, sep, b) => ret_minutes = Returned(60 * a + b)
            /\ arg_text = MinuteFirst(a, sep, b) => ret_minutes = Returned(b)
            /\ arg_text = HourToken(a) => ret_minutes = Returned(60 * a)
            /\ arg_text = MinuteToken(b) => ret_minutes = Returned(b)

\* C2 witness: "1h 15m" was parsed to 75.
C2_Witness ==
    /\ codec_op = "parse"
    /\ arg_text = HourFirst(1, <<" ">>, 15)
    /\ ret_minutes = Returned(75)

C11_BareIsHours ==
    codec_op = "parse" =>
        \A n \in 0..MaxHourArg :
            (arg_text = BareHours(n) \/ arg_text = LegacyHours(n))
                => ret_minutes = Returned(60 * n)

\* C11 witness: "7 hours" was parsed to 420.
C11_Witness ==
    /\ codec_op = "parse"
    /\ arg_text = <<"7", " ", "h", "o", "u", "r", "s">>
    /\ ret_minutes = Returned(420)

\* C12: format_hours(0) is the empty text; for m > 0 it is "<h>h" when
\* m mod 60 = 0 and "<h>h <r>m" otherwise, h = m div 60, r = m mod 60;
\* 480 gives "8h" and 90 gives "1h 30m".
C12_FormatShape ==
    codec_op = "format" =>
        /\ arg_minutes = 0 => ret_text = <<>>
        /\ (arg_minutes > 0 /\ arg_minutes % 60 = 0)
               => ret_text = NatToStr(arg_minutes \div 60) \o <<"h">>
        /\ (arg_minutes > 0 /\ arg_minutes % 60 # 0)
               => ret_text = NatToStr(arg_minutes \div 60) \o <<"h", " ">>
                                 \o NatToStr(arg_minutes % 60) \o <<"m">>
        /\ arg_minutes = 480 => ret_text = <<"8", "h">>
        /\ arg_minutes = 90 => ret_text = <<"1", "h", " ", "3", "0", "m">>

\* C12 witness: a full working day of 480 minutes was formatted as "8h".
C12_Witness ==
    /\ codec_op = "format"
    /\ arg_minutes = 480
    /\ ret_text = <<"8", "h">>


(***************************************************************************)
(* Specification of the log list: the operations that change it and        *)
(* display_logs, on a day whose date is 02.01.2025.                        *)
(***************************************************************************)
MaxLogs == 3          \* create_new_log is not taken beyond this many entries
MaxSubtaskSteps == 1  \* options chosen in one edit_subtasks call

Yes == <<"y">>
No == <<"n">>
Zero == <<"0">>

Date_01_01 == <<"0", "1", ".", "0", "1", ".", "2", "0", "2", "5">>
Date_1_1 == <<"1", ".", "1", ".", "2", "0", "2", "5">>
Date_31_02 == <<"3", "1", ".", "0", "2", ".", "2", "0", "2", "5">>
Date_sp1_01 == <<" ", "1", ".", "0", "1", ".", "2", "0", "2", "5">>

OneHour == <<"1", "h">>
HalfHour == <<"3", "0", "m">>

TicketText == <<"Q", "I", "-", "1", " ", "f", "o", "o">>
OtherTicket == <<"f", "i", "x">>
SubtaskText == <<"s">>

\* answers to update_status: both statuses answered alike
StatusAnswers(update_hours, new_hours, status, subtasks) ==
    [ update_hours |-> update_hours, new_hours |-> new_hours,
      q_status |-> status, jira_status |-> status, subtasks |-> subtasks ]

PlainStatus == StatusAnswers(No, <<>>, <<"x">>, <<>>)

CreateAnswers(use_custom_date, rejected, custom_date, ticket, hours, status) ==
    [ use_custom_date |-> use_custom_date, rejected |-> rejected,
      custom_date |-> custom_date, ticket |-> ticket, hours |-> hours,
      status |-> status ]

StoreHours == {OneHour, HalfHour}

StoreCreateInputs ==
    {CreateAnswers(Yes, <<>>, d, TicketText, h, PlainStatus) :
        d \in {Date_01_01, Date_1_1}, h \in StoreHours}
    \cup {CreateAnswers(No, <<>>, <<>>, TicketText, h, PlainStatus) : h \in StoreHours}
    \cup { CreateAnswers(Zero, <<>>, <<>>, TicketText, OneHour, PlainStatus),
           CreateAnswers(Yes, <<>>, <<"E", "x", "i", "t">>, TicketText, OneHour, PlainStatus),
           CreateAnswers(Yes, <<Date_31_02>>, Date_01_01, TicketText, OneHour, PlainStatus),
           CreateAnswers(Yes, <<>>, Date_31_02, TicketText, OneHour, PlainStatus),
           CreateAnswers(Yes, <<>>, Date_sp1_01, TicketText, OneHour, PlainStatus),
           CreateAnswers(No, <<>>, <<>>, Zero, OneHour, PlainStatus),
           CreateAnswers(No, <<>>, <<>>, TicketText, Zero, PlainStatus),
           CreateAnswers(Yes, <<>>, Date_01_01, TicketText, Ongoing, PlainStatus),
           CreateAnswers(No, <<>>, <<>>, TicketText, OneHour,
                         StatusAnswers(Yes, HalfHour, <<"c">>, <<SubtaskText>>)) }

StoreEditInputs ==
    { [edit_desc |-> No, new_desc |-> <<>>, status |-> PlainStatus],
      [edit_desc |-> Yes, new_desc |-> <<" ">>,
       status |-> StatusAnswers(Yes, HalfHour, <<"c">>, <<>>)],
      [edit_desc |-> Yes, new_desc |-> TicketText,
       status |-> StatusAnswers(No, <<>>, <<"c">>, <<>>)] }

SubtaskSteps ==
    { [option |-> <<"1">>, number |-> 1, text |-> SubtaskText],
      [option |-> <<"2">>, number |-> 1, text |-> <<>>],
      [option |-> <<"3">>, number |-> 1, text |-> <<>>] }

RECURSIVE StepLists(_)
StepLists(n) ==
    IF n = 0 THEN {<<>>}
    ELSE StepLists(n - 1)
         \cup {<<st>> \o rest : st \in SubtaskSteps, rest \in StepLists(n - 1)}

LogNumbers == 0..(MaxLogs + 1)

StoreToday == DateTime(ToOrdinal(2025, 1, 2), 1)

Init ==
    /\ logs = <<>>
    /\ log_file = <<>>
    /\ settings = DefaultSettings
    /\ now = StoreToday
    /\ screen = NoScreen
    /\ CodecAtRest

Next ==
    \/ \E ans \in StoreCreateInputs : Len(logs) < MaxLogs /\ CreateNewLog(ans)
    \/ \E number \in LogNumbers, ans \in StoreEditInputs : EditLog(number, ans)
    \/ \E number \in LogNumbers, confirm \in {Yes, No} : DeleteLog(number, confirm)
    \/ \E number \in LogNumbers, choice \in {<<"b">>, Zero} : MarkAsChecked(choice, number)
    \/ \E number \in LogNumbers, choice \in {<<"b">>, Zero} : MarkAsUnchecked(choice, number)
    \/ \E number \in LogNumbers, steps \in StepLists(MaxSubtaskSteps) : EditSubtasks(number, steps)
    \/ DisplayLogs

Spec == Init /\ [][Next]_vars

(***************************************************************************)
(* Claims about the log list and display_logs                              *)
(***************************************************************************)
\* the calendar day of an entry
DayOf(log) == log_date(log).ord

Listing == screen.kind = "logs"

EntryLines == {k \in 1..Len(screen.lines) : screen.lines[k].kind = "entry"}

\* the group of a printed line: groups are separated by the rule between days
GroupOf(k) ==
    1 + Cardinality({j \in 1..(k - 1) : screen.lines[j].kind = "day_rule"})

\* C7: in the log listing there is exactly one group per distinct calendar
\* date, the groups are in strictly ascending date order and every entry is in
\* the group of its own date.
C7_OneGroupPerDate ==
    Listing =>
        /\ \A k \in 1..Len(logs) :
               \E e \in EntryLines : screen.lines[e].log = sorted_by_date(logs)[k]
        /\ \A e1, e2 \in EntryLines :
               /\ GroupOf(e1) = GroupOf(e2)
                      => DayOf(screen.lines[e1].log) = DayOf(screen.lines[e2].log)
               /\ GroupOf(e1) < GroupOf(e2)
                      => DayOf(screen.lines[e1].log) < DayOf(screen.lines[e2].log)

\* the list is in ascending order of the entries' dates
SortedByDate(list) ==
    LET key == DateKeys(list)
    IN  \A i \in 1..(Len(list) - 1) : key[i] <= key[i + 1]

\* C8: after every operation that saves the logs, the in-memory list and the
\* persisted list are the same list, sorted in ascending order of date.  An
\* operation that saves is one that writes the list: every step that changes
\* the list or the file leaves both equal and sorted.
C8_SavedSorted ==
    [][(logs' # logs \/ log_file' # log_file)
          => (SortedByDate(logs') /\ log_file' = logs')]_vars

\* C8 witness: an entry dated 01.01.2025 stands saved in front of two entries
\* of the later day 02.01.2025.
C8_Witness ==
    /\ Len(logs) = 3
    /\ log_file = logs
    /\ date_text(logs[1].timestamp) = Date_01_01
    /\ DayOf(logs[2]) = StoreToday.ord
    /\ DayOf(logs[3]) = StoreToday.ord

RECURSIVE SumMinutes(_, _)
SumMinutes(list, day) ==
    IF Len(list) = 0 THEN 0
    ELSE (IF DayOf(Head(list)) = day THEN parse_hours(Head(list).hours).value ELSE 0)
         + SumMinutes(Tail(list), day)

\* C9: the day total shown for a date is the sum of parse_hours(hours) over
\* all entries of that date; empty and 'ongoing' durations add 0.
C9_DayTotal ==
    Listing =>
        \A k \in 1..Len(screen.lines) :
            screen.lines[k].kind = "total" =>
                screen.lines[k].minutes
                    = SumMinutes(logs, strptime_dmy(screen.lines[k].date).ord)


(***************************************************************************)
(* Specification of the sprint calculator: the sprint settings, the clock, *)
(* get_sprint_dates and view_sprint_history over a short log list.         *)
(***************************************************************************)
MaxSprintLogs == 2     \* create_new_log is not taken beyond this many entries
MaxSprintNumber == 3   \* get_sprint_dates is called with -MaxSprintNumber..MaxSprintNumber
MaxWeeks == 3          \* durations answered are 1..MaxWeeks weeks

Date_20_04 == <<"2", "0", ".", "0", "4", ".", "2", "0", "2", "5">>
Date_01_05 == <<"0", "1", ".", "0", "5", ".", "2", "0", "2", "5">>
Date_28_05 == <<"2", "8", ".", "0", "5", ".", "2", "0", "2", "5">>

Epoch_04_30 == <<"2", "0", "2", "5", "-", "0", "4", "-", "3", "0">>
Epoch_05_07 == <<"2", "0", "2", "5", "-", "0", "5", "-", "0", "7">>
Epoch_bad == <<"3", "0", ".", "0", "4", ".", "2", "0", "2", "5">>

\* the days on which the sprint specification starts the program
SprintDays ==
    { ToOrdinal(2025, 4, 20), ToOrdinal(2025, 4, 29), ToOrdinal(2025, 4, 30),
      ToOrdinal(2025, 5, 10), ToOrdinal(2025, 5, 13), ToOrdinal(2025, 5, 14) }

SprintCreateInputs ==
    {CreateAnswers(Yes, <<>>, d, OtherTicket, OneHour, PlainStatus) :
        d \in {Date_20_04, Date_01_05, Date_28_05}}

SprintStartInputs ==
    { [rejected |-> <<>>, accepted |-> Epoch_04_30],
      [rejected |-> <<Epoch_bad>>, accepted |-> Epoch_05_07] }

MinusOne == <<"-", "1">>

\* durations of 2..MaxWeeks weeks answered at once, one week answered after
\* three refused answers, and refused answers where an accepted one is due
SprintDurationInputs ==
    {[rejected |-> <<>>, accepted |-> NatToStr(w)] : w \in 2..MaxWeeks}
    \cup { [rejected |-> <<Zero, MinusOne, <<"x">>>>, accepted |-> <<"1">>],
           [rejected |-> <<>>, accepted |-> Zero],
           [rejected |-> <<>>, accepted |-> MinusOne] }

InitSprint ==
    /\ logs = <<>>
    /\ log_file = <<>>
    /\ settings = DefaultSettings
    /\ now \in {DateTime(d, t) : d \in SprintDays, t \in 0..(TicksPerDay - 1)}
    /\ screen = NoScreen
    /\ CodecAtRest

NextSprint ==
    \/ \E ans \in SprintCreateInputs : Len(logs) < MaxSprintLogs /\ CreateNewLog(ans)
    \/ \E ans \in SprintStartInputs : ConfigureSprintStart(ans)
    \/ \E ans \in SprintDurationInputs : ConfigureSprintDuration(ans)
    \/ \E i \in (0 - MaxSprintNumber)..MaxSprintNumber : GetSprintDates(i)
    \/ GetCurrentSprintDates
    \/ ViewSprintHistory

SpecSprint == InitSprint /\ [][NextSprint]_vars

(***************************************************************************)
(* Claims about sprints                                                    *)
(***************************************************************************)
ConfigEpoch == first_sprint_start(settings.sprint_config).ord
ConfigDays == settings.sprint_config.duration_weeks * 7

\* n is the floor of a / b, for b > 0
IsFloorOf(n, a, b) == n * b <= a /\ a < (n + 1) * b

History == screen.kind = "sprint_history" /\ Len(logs) > 0

EarliestDay == MinKey(DateKeys(logs)) \div TicksPerDay
LatestDay == MaxKey(DateKeys(logs)) \div TicksPerDay

\* C4: view_sprint_history enumerates the sprints from the sprint of the
\* earliest log date up to the sprint of the latest log date, both computed
\* with the configured epoch and length: every log's date lies in the range of
\* an enumerated sprint and no sprint before the earliest log's is enumerated.
C4_HistoryRange ==
    History =>
        /\ \A k \in 1..Len(logs) :
               \E b \in 1..Len(screen.blocks) :
                   /\ screen.blocks[b].sprint_start.ord <= DayOf(logs[k])
                   /\ DayOf(logs[k]) <= screen.blocks[b].sprint_end.ord
        /\ \A b \in 1..Len(screen.blocks) :
               /\ screen.blocks[b].sprint_end.ord >= EarliestDay
               /\ screen.blocks[b].sprint_start.ord <= LatestDay

\* C5: the current sprint index is the floor of (today - epoch) in days
\* divided by duration_weeks * 7, at every time of day; with the default
\* settings 2025-05-10 gives 0, 2025-05-14 gives 1, 2025-04-20 and the day
\* before the epoch give -1.
C5_CurrentSprintFloor ==
    screen.kind = "current_sprint_dates" =>
        /\ IsFloorOf(screen.sprint_number, now.ord - ConfigEpoch, ConfigDays)
        /\ settings.sprint_config = DefaultSettings.sprint_config =>
               /\ now.ord = ToOrdinal(2025, 5, 10) => screen.sprint_number = 0
               /\ now.ord = ToOrdinal(2025, 5, 14) => screen.sprint_number = 1
               /\ now.ord = ToOrdinal(2025, 4, 20) => screen.sprint_number = -1
               /\ now.ord = ToOrdinal(2025, 4, 29) => screen.sprint_number = -1

\* C5 witness: in the afternoon of the day before the default epoch the
\* current sprint is -1.
C5_Witness ==
    /\ screen.kind = "current_sprint_dates"
    /\ settings.sprint_config = DefaultSettings.sprint_config
    /\ now = DateTime(ToOrdinal(2025, 4, 29), TicksPerDay - 1)
    /\ screen.sprint_number = -1

\* C6: for every sprint index i and duration_weeks >= 1, get_sprint_dates(i)
\* returns start = epoch + i * duration_weeks * 7 days and
\* end = start + duration_weeks * 7 - 1 days; the default settings give
\* (2025-04-30, 2025-05-13) for index 0.
C6_SprintRange ==
    screen.kind = "sprint_dates" =>
        /\ screen.sprint_start = Midnight(ConfigEpoch + screen.sprint_number * ConfigDays)
        /\ screen.sprint_end.ord - screen.sprint_start.ord + 1 = ConfigDays
        /\ screen.sprint_end.tick = 0
        /\ (settings.sprint_config = DefaultSettings.sprint_config
            /\ screen.sprint_number = 0) =>
               /\ screen.sprint_start = Midnight(ToOrdinal(2025, 4, 30))
               /\ screen.sprint_end = Midnight(ToOrdinal(2025, 5, 13))

\* C6 witness: sprint -2 of a configuration of 3-week sprints was computed.
C6_Witness ==
    /\ screen.kind = "sprint_dates"
    /\ screen.sprint_number = -2
    /\ settings.sprint_config.duration_weeks = 3
    /\ screen.sprint_end.ord = ConfigEpoch - 22


(***************************************************************************)
(* Specification of the statistics report: entries created around          *)
(* Wednesday 15.01.2025, the clock, and display_statistics.                *)
(***************************************************************************)
MaxStatsLogs == 2      \* create_new_log is not taken beyond this many entries

Date_02_01 == <<"0", "2", ".", "0", "1", ".", "2", "0", "2", "5">>
Date_2_1 == <<"2", ".", "1", ".", "2", "0", "2", "5">>
Date_04_01 == <<"0", "4", ".", "0", "1", ".", "2", "0", "2", "5">>

StatsToday == ToOrdinal(2025, 1, 15)

Date_14_1 == <<"1", "4", ".", "1", ".", "2", "0", "2", "5">>
Date_16_01 == <<"1", "6", ".", "0", "1", ".", "2", "0", "2", "5">>

FiftyMinutes == <<"5", "0", "m">>
TwentyNineMinutes == <<"2", "9", "m">>

\* answers to update_status with the two statuses answered apart
MixedStatus(q_status, jira_status) ==
    [ update_hours |-> No, new_hours |-> <<>>,
      q_status |-> q_status, jira_status |-> jira_status, subtasks |-> <<>> ]

StatsStatuses == {MixedStatus(<<"x">>, <<"x">>), MixedStatus(<<"c">>, <<"x">>)}

\* entries of one hour on days around the window, and entries of other
\* durations on two workdays
StatsCreateInputs ==
    {CreateAnswers(Yes, <<>>, d, TicketText, OneHour, s) :
        d \in {Date_01_01, Date_02_01, Date_2_1, Date_04_01, Date_14_1},
        s \in StatsStatuses}
    \cup {CreateAnswers(No, <<>>, <<>>, TicketText, OneHour, s) : s \in StatsStatuses}
    \cup {CreateAnswers(Yes, <<>>, Date_02_01, TicketText, h, MixedStatus(<<"x">>, <<"x">>)) :
            h \in {Ongoing, FiftyMinutes, TwentyNineMinutes}}
    \cup {CreateAnswers(No, <<>>, <<>>, TicketText, h, MixedStatus(<<"x">>, <<"x">>)) :
            h \in {Ongoing, FiftyMinutes, TwentyNineMinutes}}
    \cup {CreateAnswers(Yes, <<>>, Date_16_01, TicketText, OneHour,
                         MixedStatus(<<"x">>, <<"x">>))}

\* a status type that no stored entry has a key for
ReviewType == <<"R">>
ReviewPrefix == <<"R", "-">>
MaxLogTypes == 3       \* a log type is not added beyond this many types

InitStats ==
    /\ logs = <<>>
    /\ log_file = <<>>
    /\ settings = DefaultSettings
    /\ now = Midnight(StatsToday)
    /\ screen = NoScreen
    /\ CodecAtRest

NextStats ==
    \/ \E ans \in StatsCreateInputs : Len(logs) < MaxStatsLogs /\ CreateNewLog(ans)
    \/ Len(settings.log_types) < MaxLogTypes /\ AddLogType(ReviewType, ReviewPrefix)
    \/ DisplayStatistics
    \/ ClockTick(DateTime(StatsToday, TicksPerDay - 1))

SpecStats == InitStats /\ [][NextStats]_vars

(***************************************************************************)
(* Claims about the statistics report                                      *)
(***************************************************************************)
Report == screen.kind = "statistics" /\ Len(logs) > 0

\* C3: display_statistics takes a log into the trailing window exactly when
\* its date is on or after today's date minus 13 days, at any time of day: a
\* log dated 13 days before today is eligible, one dated 14 days before is not.
C3_WindowByDate ==
    Report =>
        \A k \in 1..Len(logs) :
            InSeq(logs[k], screen.window) <=> DayOf(logs[k]) >= now.ord - 13

(***************************************************************************)
(* Specification of the current-sprint ticket list: entries with tickets   *)
(* of several forms, the prefixes of the log types, view_sprint_logs.      *)
(***************************************************************************)
MaxTicketLogs == 3     \* create_new_log is not taken beyond this many entries

Ticket_QI1_foo == <<"Q", "I", "-", "1", " ", "f", "o", "o">>
Ticket_QI1_Q_bar == <<"Q", "I", "-", "1", " ", "[", "Q", "]", " ", "b", "a", "r">>
Ticket_QI1Q == <<"Q", "I", "-", "1", "[", "Q", "]">>
Ticket_QI2 == <<"Q", "I", "-", "2", " ", "x">>
Ticket_AB1 == <<"A", "B", "-", "1", " ", "y">>

TicketInputs == {Ticket_QI1_foo, Ticket_QI1_Q_bar, Ticket_QI1Q, Ticket_QI2, Ticket_AB1}

Prefix_AB == <<"A", "B", "-">>

\* 10.05.2025 lies in sprint 0 of the default configuration (30.04 - 13.05)
TicketsToday == DateTime(ToOrdinal(2025, 5, 10), 1)

TicketCreateInputs ==
    {CreateAnswers(Yes, <<>>, d, t, OneHour, PlainStatus) :
        d \in {Date_01_05, Date_20_04}, t \in TicketInputs}

InitTickets ==
    /\ logs = <<>>
    /\ log_file = <<>>
    /\ settings = DefaultSettings
    /\ now = TicketsToday
    /\ screen = NoScreen
    /\ CodecAtRest

NextTickets ==
    \/ \E ans \in TicketCreateInputs : Len(logs) < MaxTicketLogs /\ CreateNewLog(ans)
    \/ \E number \in 1..2, prefix \in {Prefix_AB, QiPrefix} :
           EditLogType(number, <<>>, prefix)
    \/ ViewSprintLogs

SpecTickets == InitTickets /\ [][NextTickets]_vars

(***************************************************************************)
(* Claims about the current-sprint ticket list                             *)
(***************************************************************************)
TicketList == screen.kind = "sprint_logs"

\* the entries of the sprint that share the token and start with the prefix
Sharing(token, prefix) ==
    {k \in 1..Len(screen.sprint_logs) :
        /\ str_startswith(screen.sprint_logs[k].ticket, prefix)
        /\ qi_number_of(screen.sprint_logs[k].ticket) = token}

Marked(ticket) == str_contains(ticket, <<"[", "Q", "]">>)

FirstOf(S) == CHOOSE k \in S : \A j \in S : k <= j

\* C13: the distinct-ticket list keeps exactly one ticket per extracted token;
\* if an entry with that token contains "[Q]" the kept ticket contains "[Q]",
\* otherwise it is the first entry seen with that token; "QI-1 foo" then
\* "QI-1 [Q] bar" keep "QI-1 [Q] bar".
C13_MarkedTicketKept ==
    TicketList =>
        LET prefix == <<"Q", "I", "-">>
            kept == screen.qi_logs
        IN  /\ \A i, j \in 1..Len(kept) : kept[i].key = kept[j].key => i = j
            /\ \A k \in 1..Len(screen.sprint_logs) :
                   str_startswith(screen.sprint_logs[k].ticket, prefix)
                       => \E i \in 1..Len(kept) :
                              kept[i].key = qi_number_of(screen.sprint_logs[k].ticket)
            /\ \A i \in 1..Len(kept) :
                   LET same == Sharing(kept[i].key, prefix)
                   IN  /\ \E k \in same : screen.sprint_logs[k].ticket = kept[i].value
                       /\ IF \E k \in same : Marked(screen.sprint_logs[k].ticket)
                          THEN Marked(kept[i].value)
                          ELSE kept[i].value = screen.sprint_logs[FirstOf(same)].ticket
            /\ Len(screen.qi_lines) = Len(kept)
            /\ \A i \in 1..Len(kept) : InSeq(kept[i].value, screen.qi_lines)

\* C13 witness: "QI-1 foo" came before "QI-1 [Q] bar" and the marked one is
\* the only ticket listed.
C13_Witness ==
    /\ TicketList
    /\ Len(screen.sprint_logs) = 2
    /\ screen.sprint_logs[1].ticket = Ticket_QI1_foo
    /\ screen.sprint_logs[2].ticket = Ticket_QI1_Q_bar
    /\ screen.qi_lines = <<Ticket_QI1_Q_bar>>

\* the prefixes configured for the status type named Q
ConfiguredPrefixes ==
    {settings.log_types[i].prefix :
        i \in {j \in 1..Len(settings.log_types) : settings.log_types[j].name = <<"Q">>}}

\* C14: ticket matching uses the prefix configured for the status type: the
\* distinct-ticket list holds exactly the tickets of the sprint that start
\* with the configured prefix, also after the prefix was changed in settings.
C14_ConfiguredPrefix ==
    TicketList =>
        \A prefix \in ConfiguredPrefixes :
            /\ \A i \in 1..Len(screen.qi_logs) :
                   str_startswith(screen.qi_logs[i].value, prefix)
            /\ \A k \in 1..Len(screen.sprint_logs) :
                   str_startswith(screen.sprint_logs[k].ticket, prefix)
                       => \E i \in 1..Len(screen.qi_logs) :
                              screen.qi_logs[i].key
                                  = qi_number_of(screen.sprint_logs[k].ticket)

\* the report got past both empty-result messages
Figures == Report /\ screen.message = ""

\* the calendar days of the selected workdays
WorkdayOrds == {strptime_dmy(screen.workdays[i]).ord : i \in 1..Len(screen.workdays)}

\* the number of entries of seq equal to x
Copies(x, seq) == Cardinality({i \in 1..Len(seq) : seq[i] = x})

\* C15: the filtered entries of display_statistics are exactly the window
\* entries whose calendar date is one of the selected workdays; they are what
\* the total counts.
C15_FilterByCalendarDate ==
    Figures =>
        /\ \A k \in 1..Len(screen.window) :
               DayOf(screen.window[k]) \in WorkdayOrds
                   => Copies(screen.window[k], screen.recent_logs)
                          = Copies(screen.window[k], screen.window)
        /\ \A k \in 1..Len(screen.recent_logs) :
               /\ InSeq(screen.recent_logs[k], screen.window)
               /\ DayOf(screen.recent_logs[k]) \in WorkdayOrds
        /\ screen.total_logs
               = Cardinality({k \in 1..Len(screen.window) :
                                 DayOf(screen.window[k]) \in WorkdayOrds})

IsWeekend(day) == (day + 6) % 7 \in {5, 6}

\* C16: no Saturday or Sunday is in the workday set or on a chart row, and no
\* entry dated on a weekend is among the entries counted in the total, the
\* completion counts and the per-date totals, even with weekend entries in
\* the window.
C16_NoWeekend ==
    Figures =>
        /\ \A day \in WorkdayOrds : ~IsWeekend(day)
        /\ \A i \in 1..Len(screen.hours_chart) :
               ~IsWeekend(strptime_dmy(screen.hours_chart[i].row.date).ord)
        /\ \A i \in 1..Len(screen.logs_chart) :
               ~IsWeekend(strptime_dmy(screen.logs_chart[i].date).ord)
        /\ \A k \in 1..Len(screen.recent_logs) : ~IsWeekend(DayOf(screen.recent_logs[k]))
        /\ screen.total_logs = Len(screen.recent_logs)
        /\ \A i \in 1..Len(screen.completion_stats) :
               screen.completion_stats[i].total = Len(screen.recent_logs)

\* C16 witness: an entry of Saturday 04.01.2025 is in the window, next to an
\* entry of today, and only the entry of today is counted.
C16_Witness ==
    /\ Figures
    /\ \E k \in 1..Len(screen.window) :
           date_text(screen.window[k].timestamp) = Date_04_01
    /\ screen.total_logs = 1
    /\ Len(screen.logs_chart) = 1
    /\ screen.logs_chart[1].today

(***************************************************************************)
(* Specification of the statistics charts over many days: one entry after  *)
(* another on the weekdays of January 2025 around Wednesday 15.01.2025,    *)
(* future days included, or on a Saturday.                                 *)
(***************************************************************************)
MaxChartLogs == 12     \* create_new_log is not taken beyond this many entries

\* the day of January 2025 offered to the k-th entry
ChartDays == <<8, 16, 3, 14, 6, 20, 10, 7, 17, 13, 9, 15, 21>>

MaxSaturdays == 5      \* the Saturday is offered to this many first entries

ChartDate(k) == strftime_dmy(Midnight(ToOrdinal(2025, 1, ChartDays[k])))

ChartCreateInputs(k) ==
    {CreateAnswers(Yes, <<>>, d, TicketText, OneHour, PlainStatus) :
        d \in {ChartDate(k)} \cup (IF k <= MaxSaturdays THEN {Date_04_01} ELSE {})}

InitChart ==
    /\ logs = <<>>
    /\ log_file = <<>>
    /\ settings = DefaultSettings
    /\ now = DateTime(StatsToday, 1)
    /\ screen = NoScreen
    /\ CodecAtRest

NextChart ==
    \/ /\ Len(logs) < MaxChartLogs
       /\ Len(logs) < Len(ChartDays)
       /\ \E ans \in ChartCreateInputs(Len(logs) + 1) : CreateNewLog(ans)
    \/ DisplayStatistics

SpecChart == InitChart /\ [][NextChart]_vars

\* the weekdays on which the window has an entry
WindowWorkdays ==
    {DayOf(screen.window[k]) : k \in {j \in 1..Len(screen.window) :
                                          ~IsWeekend(DayOf(screen.window[j]))}}

\* C17: the charts list at most 10 distinct dates, the most recent workday
\* dates present among the window entries, both in strictly descending order.
C17_TenMostRecent ==
    Figures =>
        /\ Len(screen.workdays) <= 10
        /\ \A i, j \in 1..Len(screen.workdays) :
               i < j => strptime_dmy(screen.workdays[i]).ord
                            > strptime_dmy(screen.workdays[j]).ord
        /\ Len(screen.hours_chart) = Len(screen.workdays)
        /\ Len(screen.logs_chart) = Len(screen.workdays)
        /\ \A i \in 1..Len(screen.workdays) :
               /\ screen.hours_chart[i].row.date = screen.workdays[i]
               /\ screen.logs_chart[i].date = screen.workdays[i]
        /\ WorkdayOrds \subseteq WindowWorkdays
        /\ \A day \in WindowWorkdays \ WorkdayOrds :
               /\ Len(screen.workdays) = 10
               /\ \A listed \in WorkdayOrds : day < listed

\* C17 witness: the window has entries on 12 weekdays and the charts list the
\* 10 most recent, from 20.01.2025 down to 07.01.2025.
C17_Witness ==
    /\ Figures
    /\ Cardinality(WindowWorkdays) = 12
    /\ Len(screen.logs_chart) = 10
    /\ screen.logs_chart[1].date = ChartDate(6)
    /\ screen.logs_chart[10].date = ChartDate(8)

\* the rows of the two charts, as [value, bar_length]
HoursRows == {screen.hours_chart[i].row : i \in 1..Len(screen.hours_chart)}
LogsRows == {screen.logs_chart[i] : i \in 1..Len(screen.logs_chart)}

\* the bars of one chart are floor(value * 50 / max_value), max_value the
\* largest value on the chart, and 0 when max_value is 0
FloorBars(rows) ==
    \A row \in rows :
        LET max_value == CHOOSE m \in {r.value : r \in rows} : \A r \in rows : r.value <= m
        IN  /\ 0 <= row.bar_length /\ row.bar_length <= 50
            /\ IF max_value > 0
               THEN /\ row.bar_length = (row.value * 50) \div max_value
                    /\ row.value = max_value => row.bar_length = 50
               ELSE row.bar_length = 0

\* C18: each chart bar has length floor(value * 50 / max_value), between 0
\* and 50, 50 for the date of the maximum; with max_value = 0 every bar is 0.
C18_BarIsFloor ==
    Figures => FloorBars(HoursRows) /\ FloorBars(LogsRows)

\* the status keys an entry has, by the name of the status type
KeyOf(type_name) ==
    IF str_lower(type_name) = <<"q">> THEN "q_status"
    ELSE IF str_lower(type_name) = <<"j", "i", "r", "a">> THEN "jira_status"
    ELSE "none"

\* the entry counts as complete for the type: it has the key, with a check mark
Complete(log, type_name) ==
    \/ KeyOf(type_name) = "q_status" /\ log.q_status = "c"
    \/ KeyOf(type_name) = "jira_status" /\ log.jira_status = "c"

CompleteCount(type_name) ==
    Cardinality({k \in 1..Len(screen.recent_logs) :
                    Complete(screen.recent_logs[k], type_name)})

\* C19: for every configured status type, completed is the number of filtered
\* entries complete for the type (an entry without the type's key is
\* incomplete), total is the number of filtered entries and percentage is
\* completed / total * 100, 0 when total is 0; 0 <= completed <= total.
C19_CompletionFigures ==
    Figures =>
        /\ Len(screen.completion_stats) = Len(settings.log_types)
        /\ \A i \in 1..Len(settings.log_types) :
               LET stats == screen.completion_stats[i]
                   type_name == settings.log_types[i].name
               IN  /\ stats.name = type_name
                   /\ stats.completed = CompleteCount(type_name)
                   /\ stats.total = Len(screen.recent_logs)
                   /\ 0 <= stats.completed /\ stats.completed <= stats.total
                   /\ IF stats.total = 0
                      THEN stats.percentage.num = 0
                      ELSE stats.percentage.num * stats.total
                               = stats.completed * 100 * stats.percentage.den

\* C19 witness: of two filtered entries one is complete for Q, none for Jira,
\* and none for the added type R, whose key no entry has.
C19_Witness ==
    /\ Figures
    /\ Len(settings.log_types) = 3
    /\ screen.completion_stats[1].completed = 1
    /\ screen.completion_stats[1].total = 2
    /\ screen.completion_stats[2].completed = 0
    /\ screen.completion_stats[3].name = ReviewType
    /\ screen.completion_stats[3].completed = 0

\* C20: for every configured status type the incomplete list holds exactly
\* the filtered entries not counted as completed (completed + length of the
\* list = total), in ascending date order.
C20_IncompleteList ==
    Figures =>
        /\ Len(screen.incomplete) = Len(settings.log_types)
        /\ \A i \in 1..Len(settings.log_types) :
               LET type_name == settings.log_types[i].name
                   listed == screen.incomplete[i].logs
               IN  /\ screen.incomplete[i].name = type_name
                   /\ screen.completion_stats[i].completed + Len(listed)
                          = screen.completion_stats[i].total
                   /\ \A k \in 1..Len(screen.recent_logs) :
                          Copies(screen.recent_logs[k], listed)
                              = IF Complete(screen.recent_logs[k], type_name) THEN 0
                                ELSE Copies(screen.recent_logs[k], screen.recent_logs)
                   /\ \A k \in 1..Len(listed) : InSeq(listed[k], screen.recent_logs)
                   /\ \A k \in 1..(Len(listed) - 1) :
                          DayOf(listed[k]) <= DayOf(listed[k + 1])

\* C20 witness: two entries of different days are incomplete for Jira and for
\* the added type R, and one of them is complete for Q.
C20_Witness ==
    /\ Figures
    /\ Len(settings.log_types) = 3
    /\ Len(screen.incomplete[1].logs) = 1
    /\ Len(screen.incomplete[2].logs) = 2
    /\ Len(screen.incomplete[3].logs) = 2
    /\ DayOf(screen.incomplete[2].logs[1]) < DayOf(screen.incomplete[2].logs[2])

(***************************************************************************)
(* Claims about the blocks of view_sprint_history                          *)
(***************************************************************************)
\* the entries dated within the days of a block
LogsIn(block) ==
    {k \in 1..Len(logs) :
        /\ block.sprint_start.ord <= DayOf(logs[k])
        /\ DayOf(logs[k]) <= block.sprint_end.ord}

\* C21 as stated: an enumerated sprint is shown exactly when it contains a
\* log or its end date is not in the future (not after today's date).
C21_ShownByEndDate ==
    History =>
        \A b \in 1..Len(screen.blocks) :
            screen.blocks[b].shown
                <=> (LogsIn(screen.blocks[b]) # {}
                     \/ screen.blocks[b].sprint_end.ord <= now.ord)

\* C21 amended: an enumerated sprint is shown exactly when it contains a log
\* or the midnight that starts its last day is strictly before the current
\* time; a shown sprint without logs is shown empty.
C21_ShownByEndInstant ==
    History =>
        \A b \in 1..Len(screen.blocks) :
            LET block == screen.blocks[b]
            IN  /\ block.shown
                        <=> (LogsIn(block) # {}
                             \/ Instant(block.sprint_end) < Instant(now))
                /\ Len(block.sprint_logs) = Cardinality(LogsIn(block))
                /\ LogsIn(block) = {} => block.lines = <<>>

\* C21 witness: on 14.05.2025 the past sprint 0 is shown empty and the
\* running sprint 1, which has no logs either, is omitted.
C21_Witness ==
    /\ History
    /\ now.ord = ToOrdinal(2025, 5, 14)
    /\ \E b \in 1..Len(screen.blocks) :
           /\ screen.blocks[b].index = 0
           /\ screen.blocks[b].shown
           /\ screen.blocks[b].sprint_logs = <<>>
    /\ \E b \in 1..Len(screen.blocks) :
           /\ screen.blocks[b].index = 1
           /\ ~screen.blocks[b].shown
           /\ screen.blocks[b].sprint_logs = <<>>

\* the two empty-result messages of display_statistics
NoLogsMessage == "No logs found."
NoRecentLogsMessage == "No logs found in the last 10 workdays."

\* no entry is dated on or after today minus 13 days
NothingRecent == \A k \in 1..Len(logs) : DayOf(logs[k]) < now.ord - WindowDays

\* C22: with no logs at all, or with no log inside the trailing window,
\* display_statistics reports an empty-result message and nothing else: no
\* summary, no completion figures, no chart rows; every stored date parses,
\* so the report raises no error.
C22_EmptyResult ==
    (screen.kind = "statistics" /\ NothingRecent) =>
        /\ screen.message = IF Len(logs) = 0 THEN NoLogsMessage ELSE NoRecentLogsMessage
        /\ DOMAIN screen = {"kind", "message", "window"}
        /\ screen.window = <<>>
        /\ \A k \in 1..Len(logs) : strptime_dmy_ok(date_text(logs[k].timestamp))

\* C22 witness: the only entries are dated 01.01.2025, 14 days before today,
\* and the report says that the window is empty.
C22_Witness ==
    /\ screen.kind = "statistics"
    /\ Len(logs) = 2
    /\ NothingRecent
    /\ screen.message = NoRecentLogsMessage

(***************************************************************************)
(* Claims about the dates that create_new_log stores                       *)
(***************************************************************************)
\* the ways of writing a day or a month number that %d and %m read
NumberForms(n) == {NatToStr(n), ZeroPad(NatToStr(n), 2)}

\* the texts that read as a day of 2025 under DD.MM.YYYY
DatesOf2025 ==
    UNION { {d \o <<".">> \o m \o <<".", "2", "0", "2", "5">> :
                d \in NumberForms(day), m \in NumberForms(month)} :
            <<day, month>> \in {dm \in (1..31) \X (1..12) :
                                   dm[1] <= DaysInMonth(2025, dm[2])} }

\* C23: every stored entry's timestamp starts with a date that parses as
\* day.month.year: create_new_log stores nothing under a date that failed to
\* parse, whatever was answered before the accepted date.
C23_StoredDatesParse ==
    \A k \in 1..Len(logs) : date_text(logs[k].timestamp) \in DatesOf2025

\* C23 witness: entries are stored under custom dates typed with and without
\* padding, one of them after 31.02.2025 was refused.
C23_Witness ==
    /\ Len(logs) = MaxLogs
    /\ \E k \in 1..Len(logs) : date_text(logs[k].timestamp) = Date_1_1
    /\ \E k \in 1..Len(logs) : date_text(logs[k].timestamp) = Date_01_01
    /\ \E k \in 1..Len(logs) : logs[k].timestamp[1] = " "

(***************************************************************************)
(* Claims about the sprint settings                                        *)
(***************************************************************************)
\* C24: starting from the default settings, duration_weeks is an integer of
\* at least 1 after any sequence of sprint configuration operations: an
\* answer of zero, a negative number or a text that is no number is refused
\* and leaves the stored duration as it was.
C24_DurationPositive ==
    /\ settings.sprint_config.duration_weeks \in Nat
    /\ settings.sprint_config.duration_weeks >= 1
    /\ settings.sprint_config.duration_weeks <= MaxWeeks

\* C24 witness: the duration is one week, which is answered only after 0, -1
\* and x were refused.
C24_Witness ==
    /\ settings.sprint_config.duration_weeks = 1
    /\ settings.sprint_config.start_date = Epoch_05_07

(***************************************************************************)
(* Specification of the program started on a log file of any order: the    *)
(* operations on the list and the five reports.                            *)
(***************************************************************************)
MaxFileLogs == 2       \* the file holds, and create_new_log stops at, this many entries

FileToday == DateTime(ToOrdinal(2025, 1, 2), 1)

\* an entry as save_logs once wrote it
FileEntry(date, ticket, subtasks) ==
    [ timestamp |-> date \o <<" ">> \o clock_text(FileToday),
      ticket |-> ticket, hours |-> OneHour,
      q_status |-> Unchecked, jira_status |-> Unchecked, subtasks |-> subtasks ]

FileEntries ==
    { FileEntry(Date_02_01, TicketText, <<SubtaskText>>),
      FileEntry(Date_01_01, OtherTicket, <<>>) }

RECURSIVE FilesOfLen(_)
FilesOfLen(n) ==
    IF n = 0 THEN {<<>>}
    ELSE {<<entry>> \o rest : entry \in FileEntries, rest \in FilesOfLen(n - 1)}

\* the files the program is started on, sorted by date or not
Files == UNION {FilesOfLen(n) : n \in 0..MaxFileLogs}

FileCreateInputs ==
    {CreateAnswers(Yes, <<>>, d, OtherTicket, OneHour, PlainStatus) :
        d \in {Date_01_01, Date_02_01}}

FileEditInputs ==
    { [edit_desc |-> Yes, new_desc |-> TicketText,
       status |-> StatusAnswers(No, <<>>, <<"x">>, <<>>)] }

FileNumbers == 0..MaxFileLogs

InitFile ==
    /\ log_file \in Files
    /\ logs = load_logs(log_file)
    /\ settings = DefaultSettings
    /\ now = FileToday
    /\ screen = NoScreen
    /\ CodecAtRest

NextFile ==
    \/ \E ans \in FileCreateInputs : Len(logs) < MaxFileLogs /\ CreateNewLog(ans)
    \/ \E number \in FileNumbers, ans \in FileEditInputs : EditLog(number, ans)
    \/ \E number \in FileNumbers : DeleteLog(number, Yes)
    \/ \E number \in FileNumbers : MarkAsChecked(<<"q">>, number)
    \/ \E number \in FileNumbers : MarkAsUnchecked(<<"q">>, number)
    \/ \E number \in FileNumbers, steps \in StepLists(MaxSubtaskSteps) :
           EditSubtasks(number, steps)
    \/ DisplayLogs
    \/ \E answer \in {Date_01_01, Date_02_01, Date_31_02} : ViewLogsForDate(answer)
    \/ ViewSprintLogs
    \/ ViewSprintHistory
    \/ DisplayStatistics

SpecFile == InitFile /\ [][NextFile]_vars

(***************************************************************************)
(* Claims about the reports and the numbers of the entries                 *)
(***************************************************************************)
ReportKinds == {"logs", "logs_for_date", "sprint_logs", "sprint_history", "statistics"}

\* C25: display_logs, view_logs_for_date, view_sprint_logs,
\* view_sprint_history and display_statistics leave the log list as it was:
\* the same entries with the same field values in the same order, and the
\* same file.
C25_ReportsKeepLogs ==
    [][screen'.kind \in ReportKinds => (logs' = logs /\ log_file' = log_file)]_vars

\* C25 witness: display_logs has listed, in date order, a list that is itself
\* still in the file's order, later date first.
C25_Witness ==
    /\ screen.kind = "logs"
    /\ Len(logs) = 2
    /\ DayOf(logs[1]) > DayOf(logs[2])
    /\ screen.lines[1].log = logs[2]

(***************************************************************************)
(* Claims about the place of a new entry                                   *)
(***************************************************************************)
\* the entry at position p of after is new: without it after is before, the
\* entries ahead of it are dated its day or earlier, those behind it later
InsertedAt(before, after, p) ==
    /\ RemoveAt(after, p) = before
    /\ \A j \in 1..(p - 1) : DayOf(after[j]) <= DayOf(after[p])
    /\ \A j \in (p + 1)..Len(after) : DayOf(after[j]) > DayOf(after[p])

\* C26: when create_new_log adds an entry dated d to a sorted list, the new
\* entry stands after every existing entry dated d or earlier and before
\* every entry dated later, and the existing entries keep their order.
C26_StableInsert ==
    [][Len(logs') = Len(logs) + 1 =>
           \E p \in 1..Len(logs') : InsertedAt(logs, logs', p)]_vars

\* C26 witness: two different entries of 01.01.2025, one typed 1.1.2025,
\* stand ahead of an entry of a later day.
C26_Witness ==
    /\ Len(logs) = 3
    /\ DayOf(logs[1]) = DayOf(logs[2])
    /\ date_text(logs[1].timestamp) = Date_01_01
    /\ date_text(logs[2].timestamp) = Date_1_1
    /\ DayOf(logs[3]) > DayOf(logs[2])

\* C27: the number display_logs shows next to an entry is the number under
\* which edit_log, delete_log, mark_as_checked, mark_as_unchecked and
\* edit_subtasks find that entry, self.logs[number - 1], for any initial
\* contents of the log file and after any sequence of operations.
C27_NumberIdentifiesEntry ==
    Listing =>
        \A i \in EntryLines :
            screen.lines[i].log = logs[screen.lines[i].number]

(***************************************************************************)
(* Claims about the sign of parsed durations                               *)
(***************************************************************************)
\* C28: parse_hours returns a nonnegative number of minutes for every input
\* text, so that no entry lowers a day total or a chart value.
C28_NonNegativeMinutes ==
    (Parsed /\ ~ret_minutes.raised) => ret_minutes.value >= 0

(***************************************************************************)
(* Claims about the dates on the charts                                    *)
(***************************************************************************)
ChartDates == {row.date : row \in HoursRows \cup LogsRows}

\* C29: every date on the statistics charts lies in the trailing window that
\* ends today: not later than today and not earlier than today minus 13
\* days, also when entries with a custom date in the future exist.
C29_ChartDatesInWindow ==
    Figures =>
        \A date \in ChartDates :
            /\ strptime_dmy(date).ord <= now.ord
            /\ strptime_dmy(date).ord >= now.ord - WindowDays

(***************************************************************************)
(* Claims about the sprints as a partition of the calendar                 *)
(***************************************************************************)
\* C30: for every configuration with duration_weeks >= 1 the day after the
\* end of sprint i is the start of sprint i + 1, and today's date lies within
\* the start and end dates returned for the current sprint, before and
\* after the epoch.
C30_SprintsPartition ==
    /\ screen.kind = "sprint_dates" =>
           /\ screen.sprint_start.ord <= screen.sprint_end.ord
           /\ screen.sprint_end.ord + 1
                  = sprint_dates(settings.sprint_config,
                                 screen.sprint_number + 1).sprint_start.ord
    /\ screen.kind = "current_sprint_dates" =>
           /\ screen.sprint_start.ord <= now.ord
           /\ now.ord <= screen.sprint_end.ord
           /\ screen.sprint_end.ord + 1
                  = sprint_dates(settings.sprint_config,
                                 screen.sprint_number + 1).sprint_start.ord

\* C30 witness: with 3-week sprints from 2025-05-07, the 29.04.2025 lies in
\* the current sprint -1, which starts on 16.04.2025 and ends on 06.05.2025.
C30_Witness ==
    /\ screen.kind = "current_sprint_dates"
    /\ settings.sprint_config.duration_weeks = 3
    /\ settings.sprint_config.start_date = Epoch_05_07
    /\ now.ord = ToOrdinal(2025, 4, 29)
    /\ screen.sprint_number = -1
    /\ screen.sprint_start.ord = ToOrdinal(2025, 4, 16)
    /\ screen.sprint_end.ord = ToOrdinal(2025, 5, 6)

=============================================================================
